---- MODULE Spec2Model ----
(***************************************************************************)
(* One-way sync engine of bucket-scout (src-tauri/src/commands/sync.rs and *)
(* src-tauri/src/db/sync.rs): sync pairs, tracked-file rows, sessions, the *)
(* active-sync map, the start_sync / cancel_sync / preview_sync commands   *)
(* and the spawned run_sync task, together with the local directory and    *)
(* the bucket prefix each pair binds.                                      *)
(*                                                                         *)
(* Option<T> values are sequences: None is << >>, Some(x) is <<x>>.        *)
(* Database calls are taken to succeed; filesystem and S3 calls may fail.  *)
(***************************************************************************)
EXTENDS Integers, Sequences, FiniteSets, TLC

\* ------------------------------------------------------------------ bounds

\* number of sync pairs of the scenario
MaxPairs == 1
\* number of accepted start_sync calls (sessions) in one behaviour
MaxSessions == 3
\* number of external changes to the local tree / the bucket in one behaviour
MaxExternal == 1
\* number of command invocations that can be in progress at the same time
MaxCalls == 2
\* number of runs started one after the other in SpecSeq
MaxRuns == 2
\* number of sync pairs created in one behaviour of SpecPairs
MaxCreated == 2
\* number of keys one page of a bucket listing holds in SpecScan
PageSize == 1

PairIds == 1 .. MaxPairs
SessionIds == 1 .. MaxSessions
CallIds == 1 .. MaxCalls

\* relative paths; sizes are content lengths and modification times are
\* milliseconds relative to UNIX_EPOCH (a negative one lies before the epoch);
\* ClockTimes are the times the clock can show when a file or object is written
Paths == {"a", "b"}
ClockTimes == {1}

None == << >>
Some(x) == <<x>>
IsSome(o) == o # << >>
UnwrapOr(o, d) == IF o = << >> THEN d ELSE o[1]

\* ----------------------------------------------------------- scanner

\* metadata.modified() ... duration_since(UNIX_EPOCH).ok() ... as_millis
MtimeOf(modified) == IF modified >= 0 THEN Some(modified) ELSE None

\* scan_local_files: relative path -> DetectedChange for every regular file
scan_local_files(fs) ==
    [path \in {q \in DOMAIN fs : IsSome(fs[q])} |->
        [relative_path |-> path,
         change_type   |-> "Unchanged",
         size          |-> Some(fs[path][1].size),
         mtime         |-> MtimeOf(fs[path][1].modified),
         hash          |-> None]]

\* scan_remote_files: relative path -> DetectedChange for every listed object
scan_remote_files(objs) ==
    [path \in {q \in DOMAIN objs : IsSome(objs[q])} |->
        [relative_path |-> path,
         change_type   |-> "Unchanged",
         size          |-> Some(objs[path][1].size),
         mtime         |-> objs[path][1].last_modified,
         hash          |-> objs[path][1].etag]]

\* ----------------------------------------------------- change detector

\* a classification that does not look at the deleted flag
ClassifyIgnoresDeleted(previous, path, curr) ==
    IF path \in DOMAIN previous
    THEN IF previous[path].size # UnwrapOr(curr.size, 0)
            \/ previous[path].mtime_ms # curr.mtime
         THEN "Modified" ELSE "Unchanged"
    ELSE "New"

\* the change type detect_changes gives a path of `current`
Classify(previous, path, curr) ==
    IF path \in DOMAIN previous
    THEN IF previous[path].is_deleted THEN "New"
         ELSE IF previous[path].size # UnwrapOr(curr.size, 0)
                 \/ previous[path].mtime_ms # curr.mtime
              THEN "Modified" ELSE "Unchanged"
    ELSE "New"

\* a detector that reports every previous record absent from `current`, the
\* deleted ones too
detect_changes_deleted_again(previous, current) ==
    LET changed == {q \in DOMAIN current :
                        Classify(previous, q, current[q]) # "Unchanged"}
        gone    == {q \in DOMAIN previous : q \notin DOMAIN current}
    IN [path \in changed \cup gone |->
          IF path \in changed
          THEN [current[path] EXCEPT
                   !.change_type = Classify(previous, path, current[path])]
          ELSE [relative_path |-> path,
                change_type   |-> "Deleted",
                size          |-> Some(previous[path].size),
                mtime         |-> previous[path].mtime_ms,
                hash          |-> previous[path].content_hash]]

\* detect_changes(previous, current): path -> DetectedChange, Unchanged dropped
detect_changes(previous, current) ==
    LET changed == {q \in DOMAIN current :
                        Classify(previous, q, current[q]) # "Unchanged"}
        gone    == {q \in DOMAIN previous :
                        ~previous[q].is_deleted /\ q \notin DOMAIN current}
    IN [path \in changed \cup gone |->
          IF path \in changed
          THEN [current[path] EXCEPT
                   !.change_type = Classify(previous, path, current[path])]
          ELSE [relative_path |-> path,
                change_type   |-> "Deleted",
                size          |-> Some(previous[path].size),
                mtime         |-> previous[path].mtime_ms,
                hash          |-> previous[path].content_hash]]

\* the set of values of a path -> DetectedChange map
Values(m) == {m[q] : q \in DOMAIN m}

\* the scanned entries as they are, with the change type the scan gave them
AsScanned(current) == Values(current)

AsNew(current) ==
    {[current[q] EXCEPT !.change_type = "New"] : q \in DOMAIN current}

NoQueues ==
    [to_upload |-> {}, to_download |-> {}, to_delete_local |-> {},
     to_delete_remote |-> {}, skipped_local_deletions |-> {},
     skipped_remote_deletions |-> {}]

OfType(changes, types) == {c \in Values(changes) : c.change_type \in types}

\* ------------------------------------------------------------- planner

\* a preview that lists deletions whatever delete_propagation says
PlanPreviewAlwaysDeletes(direction, delete_propagation, local_previous, remote_previous, local_current, remote_current) ==
    IF direction = "UploadOnly"
    THEN IF DOMAIN local_previous = {}
         THEN [NoQueues EXCEPT !.to_upload = AsNew(local_current)]
         ELSE LET local_changes == detect_changes(local_previous, local_current)
              IN [NoQueues EXCEPT
                    !.to_upload = OfType(local_changes, {"New", "Modified"}),
                    !.to_delete_remote = OfType(local_changes, {"Deleted"})]
    ELSE IF DOMAIN remote_previous = {}
         THEN [NoQueues EXCEPT !.to_download = AsNew(remote_current)]
         ELSE LET remote_changes == detect_changes(remote_previous, remote_current)
              IN [NoQueues EXCEPT
                    !.to_download = OfType(remote_changes, {"New", "Modified"}),
                    !.to_delete_local = OfType(remote_changes, {"Deleted"})]

\* the queues preview_sync returns
PlanPreview(direction, delete_propagation, local_previous, remote_previous, local_current, remote_current) ==
    IF direction = "UploadOnly"
    THEN IF DOMAIN local_previous = {}
         THEN [NoQueues EXCEPT !.to_upload = AsNew(local_current)]
         ELSE LET local_changes == detect_changes(local_previous, local_current)
              IN [NoQueues EXCEPT
                    !.to_upload = OfType(local_changes, {"New", "Modified"}),
                    !.to_delete_remote =
                        IF delete_propagation
                        THEN OfType(local_changes, {"Deleted"}) ELSE {}]
    ELSE IF DOMAIN remote_previous = {}
         THEN [NoQueues EXCEPT !.to_download = AsNew(remote_current)]
         ELSE LET remote_changes == detect_changes(remote_previous, remote_current)
              IN [NoQueues EXCEPT
                    !.to_download = OfType(remote_changes, {"New", "Modified"}),
                    !.to_delete_local =
                        IF delete_propagation
                        THEN OfType(remote_changes, {"Deleted"}) ELSE {}]

\* a plan that acts on the changes of both sides, whatever the direction
PlanRunBothWays(direction, delete_propagation, is_resync, local_previous, remote_previous, local_current, remote_current) ==
    [NoQueues EXCEPT
        !.to_upload = OfType(detect_changes(local_previous, local_current), {"New", "Modified"}),
        !.to_download = OfType(detect_changes(remote_previous, remote_current), {"New", "Modified"})]

\* a plan that mirrors: whatever the destination holds and the source does not
\* is deleted
PlanRunMirrors(direction, delete_propagation, is_resync, local_previous, remote_previous, local_current, remote_current) ==
    IF direction = "UploadOnly"
    THEN [NoQueues EXCEPT
            !.to_upload = OfType(detect_changes(local_previous, local_current), {"New", "Modified"}),
            !.to_delete_remote = {[remote_current[q] EXCEPT !.change_type = "Deleted"] :
                                     q \in DOMAIN remote_current \ DOMAIN local_current}]
    ELSE [NoQueues EXCEPT
            !.to_download = OfType(detect_changes(remote_previous, remote_current), {"New", "Modified"}),
            !.to_delete_local = {[local_current[q] EXCEPT !.change_type = "Deleted"] :
                                    q \in DOMAIN local_current \ DOMAIN remote_current}]

\* the queues run_sync collects, with the skipped deletions
PlanRun(direction, delete_propagation, is_resync, local_previous, remote_previous, local_current, remote_current) ==
    IF direction = "UploadOnly"
    THEN IF is_resync \/ DOMAIN local_previous = {}
         THEN [NoQueues EXCEPT !.to_upload = AsNew(local_current)]
         ELSE LET local_changes == detect_changes(local_previous, local_current)
              IN [NoQueues EXCEPT
                    !.to_upload = OfType(local_changes, {"New", "Modified"}),
                    !.to_delete_remote =
                        IF delete_propagation
                        THEN OfType(local_changes, {"Deleted"}) ELSE {},
                    !.skipped_local_deletions =
                        IF delete_propagation
                        THEN {} ELSE OfType(local_changes, {"Deleted"})]
    ELSE IF is_resync \/ DOMAIN remote_previous = {}
         THEN [NoQueues EXCEPT !.to_download = AsNew(remote_current)]
         ELSE LET remote_changes == detect_changes(remote_previous, remote_current)
              IN [NoQueues EXCEPT
                    !.to_download = OfType(remote_changes, {"New", "Modified"}),
                    !.to_delete_local =
                        IF delete_propagation
                        THEN OfType(remote_changes, {"Deleted"}) ELSE {},
                    !.skipped_remote_deletions =
                        IF delete_propagation
                        THEN {} ELSE OfType(remote_changes, {"Deleted"})]

\* the four action queues of a plan, as SyncPreview carries them
FourQueues(q) ==
    [to_upload |-> q.to_upload, to_download |-> q.to_download,
     to_delete_local |-> q.to_delete_local, to_delete_remote |-> q.to_delete_remote]

\* ---------------------------------------------------------------- state

VARIABLES
    pairs,         \* sync_pairs rows: pair id -> SyncPair
    localFs,       \* pair id -> the local directory: path -> Option<file>
    bucket,        \* pair id -> the objects under the prefix: path -> Option<object>
    localRows,     \* sync_local_files: pair id -> (path -> TrackedFile)
    remoteRows,    \* sync_remote_files: pair id -> (path -> TrackedFile)
    sessions,      \* sync_sessions rows, the index is the session id
    active_syncs,  \* SyncState.active_syncs: pair id -> the flag registered
    cancel_flag,   \* the AtomicBool start_sync created for each session
    task,          \* the spawned task of each session and run_sync's locals
    calls,         \* start_sync / cancel_sync invocations in progress
    returned,      \* the value a command returned to its caller in the last step
    external,      \* how many external changes happened so far
    since,         \* pair id -> whether the world changed since the last scan
    pair_seq       \* sqlite_sequence of sync_pairs: the largest pair id given so far

vars == <<pairs, localFs, bucket, localRows, remoteRows, sessions, active_syncs,
          cancel_flag, task, calls, returned, external, since, pair_seq>>

EmptyMap == [q \in {} |-> None]

Directions == {"UploadOnly", "DownloadOnly"}

\* create_sync_pair: a new row has status 'idle' and no last sync, no error
NewPair(direction, delete_propagation) ==
    [sync_direction |-> direction, delete_propagation |-> delete_propagation,
     status |-> "Idle", last_sync_at |-> None, last_error |-> None]

NoTask ==
    [pc |-> "none", pair_id |-> 0, sync_direction |-> "UploadOnly",
     delete_propagation |-> FALSE, is_resync |-> FALSE,
     local_current |-> EmptyMap, remote_current |-> EmptyMap,
     token |-> 0, requests |-> 0,
     queues |-> NoQueues, handled |-> {}, cur |-> None, size |-> 0, mtime |-> 0,
     files_uploaded |-> 0, files_downloaded |-> 0, files_deleted_local |-> 0,
     files_deleted_remote |-> 0, bytes_transferred |-> 0, processed |-> 0,
     event |-> None,
     result |-> "pending", exit |-> "none"]

\* a task that ended: run_sync's locals are gone
DoneTask(p, is_resync, result, exit) ==
    [NoTask EXCEPT !.pc = "done", !.pair_id = p, !.is_resync = is_resync,
                   !.result = result, !.exit = exit]

NoCall ==
    [op |-> "none", pc |-> "none", pair_id |-> 0, is_resync |-> FALSE,
     pair |-> None]

NoPreview ==
    [to_upload |-> {}, to_download |-> {}, to_delete_local |-> {},
     to_delete_remote |-> {}]

NoReturn ==
    [op |-> "none", pair_id |-> 0, ok |-> TRUE, error |-> "", session_id |-> 0,
     preview |-> NoPreview]

ReturnOk(op, p) == [NoReturn EXCEPT !.op = op, !.pair_id = p]
ReturnErr(op, p, e) == [NoReturn EXCEPT !.op = op, !.pair_id = p, !.ok = FALSE, !.error = e]

\* the files and objects a directory or prefix can hold before the first command
File(size, modified) == [size |-> size, modified |-> modified]
Object(size, last_modified) ==
    [size |-> size, last_modified |-> last_modified, etag |-> Some(size)]

\* a fresh database and an empty active-sync map; the pairs have just been
\* created on directories and prefixes holding some of `fileSet` and `objectSet`
InitFresh(pairSet, fileSet, objectSet) ==
    /\ pairs \in pairSet
    /\ localFs \in [PairIds -> [Paths -> fileSet]]
    /\ bucket \in [PairIds -> [Paths -> objectSet]]
    /\ localRows = [p \in PairIds |-> EmptyMap]
    /\ remoteRows = [p \in PairIds |-> EmptyMap]
    /\ sessions = << >>
    /\ active_syncs = EmptyMap
    /\ cancel_flag = [s \in SessionIds |-> FALSE]
    /\ task = [s \in SessionIds |-> NoTask]
    /\ calls = [c \in CallIds |-> NoCall]
    /\ returned = NoReturn
    /\ external = 0
    /\ since = [p \in PairIds |-> "dirty"]
    /\ pair_seq = MaxPairs

\* ------------------------------------------------------- database calls

\* UPDATE sync_pairs SET status = ?1 with no WHERE: every pair gets the status
update_sync_pair_status_all(ps, pair_id, status) ==
    [q \in DOMAIN ps |-> [ps[q] EXCEPT !.status = status]]

update_sync_pair_status(ps, pair_id, status) ==
    IF pair_id \in DOMAIN ps THEN [ps EXCEPT ![pair_id].status = status] ELSE ps

\* a completion that keeps the last error
mark_sync_completed_keeps_error(ps, pair_id) ==
    IF pair_id \in DOMAIN ps
    THEN [ps EXCEPT ![pair_id].status = "Idle",
                    ![pair_id].last_sync_at = Some("now")]
    ELSE ps

mark_sync_completed(ps, pair_id) ==
    IF pair_id \in DOMAIN ps
    THEN [ps EXCEPT ![pair_id].status = "Idle",
                    ![pair_id].last_sync_at = Some("now"),
                    ![pair_id].last_error = None]
    ELSE ps

\* a failure that sets the status and drops the message
mark_sync_failed_no_message(ps, pair_id, error) ==
    update_sync_pair_status(ps, pair_id, "Error")

mark_sync_failed(ps, pair_id, error) ==
    IF pair_id \in DOMAIN ps
    THEN [ps EXCEPT ![pair_id].status = "Error", ![pair_id].last_error = Some(error)]
    ELSE ps

\* INSERT ... ON CONFLICT(sync_pair_id, relative_path) DO UPDATE
Upsert(rows, path, row) ==
    [q \in DOMAIN rows \cup {path} |-> IF q = path THEN row ELSE rows[q]]

save_local_file_state(rows, relative_path, size, mtime_ms) ==
    Upsert(rows, relative_path,
           [relative_path |-> relative_path, size |-> size,
            mtime_ms |-> Some(mtime_ms), etag |-> None, content_hash |-> None,
            is_deleted |-> FALSE])

save_remote_file_state(rows, relative_path, size, etag, last_modified) ==
    Upsert(rows, relative_path,
           [relative_path |-> relative_path, size |-> size,
            mtime_ms |-> last_modified, etag |-> etag, content_hash |-> None,
            is_deleted |-> FALSE])

\* a remote-side mark that is not made
mark_remote_file_kept(rows, relative_path) == rows

mark_local_file_deleted(rows, relative_path) ==
    IF relative_path \in DOMAIN rows
    THEN [rows EXCEPT ![relative_path].is_deleted = TRUE] ELSE rows

mark_remote_file_deleted(rows, relative_path) ==
    IF relative_path \in DOMAIN rows
    THEN [rows EXCEPT ![relative_path].is_deleted = TRUE] ELSE rows

\* skipped deletions that are left unmarked
MarkNone(rows, paths) == rows

RECURSIVE MarkAll(_, _)
\* mark every path of a set deleted (the loops over the skipped deletions)
MarkAll(rows, paths) ==
    IF paths = {} THEN rows
    ELSE LET q == CHOOSE x \in paths : TRUE
         IN MarkAll(mark_local_file_deleted(rows, q), paths \ {q})

\* a resync that keeps the tracked rows
clear_tracked_files_keeps(rows, pair_id) == rows

\* DELETE FROM sync_local_files / sync_remote_files WHERE sync_pair_id = ?1,
\* applied to the table of one side
clear_tracked_files(rows, pair_id) == [rows EXCEPT ![pair_id] = EmptyMap]

create_sync_session(ss, pair_id) ==
    Append(ss, [sync_pair_id |-> pair_id, status |-> "Running",
                files_uploaded |-> 0, files_downloaded |-> 0,
                files_deleted_local |-> 0, files_deleted_remote |-> 0,
                bytes_transferred |-> 0, completed_at |-> None,
                error_message |-> None])

\* the place of a sync_sessions row that was deleted: ids are AUTOINCREMENT and
\* are not given again
NoSession ==
    [sync_pair_id |-> 0, status |-> "none", files_uploaded |-> 0,
     files_downloaded |-> 0, files_deleted_local |-> 0, files_deleted_remote |-> 0,
     bytes_transferred |-> 0, completed_at |-> None, error_message |-> None]

\* the row WHERE id = session_id exists
HasSession(ss, session_id) ==
    session_id \in DOMAIN ss /\ ss[session_id] # NoSession

\* UPDATE sync_sessions ... WHERE id = ?: no row, no change
update_sync_session_progress(ss, session_id, t) ==
    IF ~HasSession(ss, session_id) THEN ss
    ELSE [ss EXCEPT ![session_id].files_uploaded = t.files_uploaded,
                    ![session_id].files_downloaded = t.files_downloaded,
                    ![session_id].files_deleted_local = t.files_deleted_local,
                    ![session_id].files_deleted_remote = t.files_deleted_remote,
                    ![session_id].bytes_transferred = t.bytes_transferred]

complete_sync_session(ss, session_id) ==
    IF ~HasSession(ss, session_id) THEN ss
    ELSE [ss EXCEPT ![session_id].completed_at = Some("now"),
                    ![session_id].status = "Completed"]

\* a failure recorded on every session of the pair of session_id
fail_sync_session_of_pair(ss, session_id, error) ==
    [x \in DOMAIN ss |->
        IF ss[x].sync_pair_id = ss[session_id].sync_pair_id
        THEN [ss[x] EXCEPT !.completed_at = Some("now"), !.status = "Failed",
                           !.error_message = Some(error)]
        ELSE ss[x]]

fail_sync_session(ss, session_id, error) ==
    IF ~HasSession(ss, session_id) THEN ss
    ELSE [ss EXCEPT ![session_id].completed_at = Some("now"),
                    ![session_id].status = "Failed",
                    ![session_id].error_message = Some(error)]

\* HashMap::remove on the active-sync map
RemoveKey(m, k) == [x \in DOMAIN m \ {k} |-> m[x]]
\* HashMap::insert on the active-sync map
InsertKey(m, k, v) == [x \in DOMAIN m \cup {k} |-> IF x = k THEN v ELSE m[x]]

\* ------------------------------------------------------------ commands

ErrNotFound == "Invalid input: Sync pair not found"
ErrAlreadyRunning == "Invalid input: Sync already in progress"
ErrCredential == "Credential error: account"
ErrScan == "Storage error: scan failed"
ErrMkdir == "Storage error: Failed to create local directory"
ErrRead == "Storage error: Failed to read file"
ErrPut == "S3 error: put_object"
ErrGet == "S3 error: get_object"
ErrRemove == "Storage error: Failed to delete file"
ErrDelete == "S3 error: delete_object"
\* an INSERT that names a sync pair that does not exist (foreign key)
ErrCreateSession == "Storage error: Failed to create sync session"
ErrSaveState == "Storage error: Failed to save local file state"

\* start_sync calls that passed the check and have not created their session yet
PendingStarts == {c \in CallIds : calls[c].op = "start_sync" /\ calls[c].pc = "checked"}

\* an invocation takes the first free slot
FreeSlot(c) == calls[c].op = "none" /\ \A d \in CallIds : d < c => calls[d].op # "none"

\* a check that finds no pair active
AlreadyActiveNever(pair_id) == FALSE

\* syncs.contains_key(&pair_id)
AlreadyActive(pair_id) == pair_id \in DOMAIN active_syncs

\* start_sync up to the check of the active-sync map: the pair is read, and the
\* call returns an error if the pair is unknown or already has an entry
StartSyncCheck(c, p, r) ==
    /\ FreeSlot(c)
    /\ Len(sessions) + Cardinality(PendingStarts) < MaxSessions
    /\ IF p \notin DOMAIN pairs
       THEN /\ returned' = ReturnErr("start_sync", p, ErrNotFound)
            /\ UNCHANGED calls
       ELSE IF AlreadyActive(p)
       THEN /\ returned' = ReturnErr("start_sync", p, ErrAlreadyRunning)
            /\ UNCHANGED calls
       ELSE /\ calls' = [calls EXCEPT ![c] =
                            [op |-> "start_sync", pc |-> "checked", pair_id |-> p,
                             is_resync |-> r, pair |-> Some(pairs[p])]]
            /\ returned' = NoReturn
    /\ UNCHANGED <<pairs, localFs, bucket, localRows, remoteRows, sessions,
                   active_syncs, cancel_flag, task, external, since, pair_seq>>

\* start_sync after the check: the status becomes syncing, the session is created,
\* the flag is inserted, tracked files are cleared on a resync, the S3 client is
\* obtained (or the call fails there) and the run task is spawned.  If the pair
\* was deleted since the check, the INSERT of the session fails and the call
\* returns that error
StartSyncSpawn(c) ==
    LET p == calls[c].pair_id
        sid == Len(sessions) + 1
    IN /\ calls[c].op = "start_sync" /\ calls[c].pc = "checked"
       /\ IF p \notin DOMAIN pairs
          THEN /\ returned' = ReturnErr("start_sync", p, ErrCreateSession)
               /\ UNCHANGED <<pairs, sessions, cancel_flag, active_syncs, localRows,
                              remoteRows, since, task>>
          ELSE /\ pairs' = update_sync_pair_status(pairs, p, "Syncing")
               /\ sessions' = create_sync_session(sessions, p)
               /\ cancel_flag' = [cancel_flag EXCEPT ![sid] = FALSE]
               /\ active_syncs' = InsertKey(active_syncs, p, sid)
               /\ IF calls[c].is_resync
                  THEN /\ localRows' = clear_tracked_files(localRows, p)
                       /\ remoteRows' = clear_tracked_files(remoteRows, p)
                       /\ since' = [since EXCEPT ![p] = "dirty"]
                  ELSE UNCHANGED <<localRows, remoteRows, since>>
               /\ \E client_ok \in BOOLEAN :
                    IF client_ok
                    THEN /\ task' = [task EXCEPT ![sid] =
                                        [NoTask EXCEPT
                                           !.pc = "scan", !.pair_id = p,
                                           !.sync_direction =
                                               calls[c].pair[1].sync_direction,
                                           !.delete_propagation =
                                               calls[c].pair[1].delete_propagation,
                                           !.is_resync = calls[c].is_resync]]
                         /\ returned' = [ReturnOk("start_sync", p) EXCEPT
                                            !.session_id = sid]
                    ELSE /\ returned' = ReturnErr("start_sync", p, ErrCredential)
                         /\ UNCHANGED task
       /\ calls' = [calls EXCEPT ![c] = NoCall]
       /\ UNCHANGED <<localFs, bucket, external, pair_seq>>

\* if let Some(flag) = syncs.get(&pair_id) { flag.store(true) }
StoreFlag(syncs, flags, pair_id) ==
    IF pair_id \in DOMAIN syncs THEN [flags EXCEPT ![syncs[pair_id]] = TRUE] ELSE flags

\* cancel_sync: the registered flag is set and the status becomes idle (then the
\* write lock is awaited)
CancelSyncSet(c, p) ==
    /\ FreeSlot(c)
    /\ cancel_flag' = StoreFlag(active_syncs, cancel_flag, p)
    /\ pairs' = update_sync_pair_status(pairs, p, "Idle")
    /\ calls' = [calls EXCEPT ![c] =
                    [NoCall EXCEPT !.op = "cancel_sync", !.pc = "remove",
                                   !.pair_id = p]]
    /\ returned' = NoReturn
    /\ UNCHANGED <<localFs, bucket, localRows, remoteRows, sessions, active_syncs,
                   task, external, since, pair_seq>>

\* a cancel_sync that reports a pair with no registered sync as an error
CancelSyncRemoveStrict(c) ==
    /\ calls[c].op = "cancel_sync" /\ calls[c].pc = "remove"
    /\ active_syncs' = RemoveKey(active_syncs, calls[c].pair_id)
    /\ returned' = IF calls[c].pair_id \in DOMAIN active_syncs
                   THEN ReturnOk("cancel_sync", calls[c].pair_id)
                   ELSE ReturnErr("cancel_sync", calls[c].pair_id, ErrNotFound)
    /\ calls' = [calls EXCEPT ![c] = NoCall]
    /\ UNCHANGED <<pairs, localFs, bucket, localRows, remoteRows, sessions,
                   cancel_flag, task, external, since, pair_seq>>

\* cancel_sync: the pair is removed from the active-sync map
CancelSyncRemove(c) ==
    /\ calls[c].op = "cancel_sync" /\ calls[c].pc = "remove"
    /\ active_syncs' = RemoveKey(active_syncs, calls[c].pair_id)
    /\ returned' = ReturnOk("cancel_sync", calls[c].pair_id)
    /\ calls' = [calls EXCEPT ![c] = NoCall]
    /\ UNCHANGED <<pairs, localFs, bucket, localRows, remoteRows, sessions,
                   cancel_flag, task, external, since, pair_seq>>

\* a preview that marks the deletions it lists in the tracked rows
PreviewSyncMarksDeleted(p) ==
    LET preview == FourQueues(
                       PlanPreview(pairs[p].sync_direction, pairs[p].delete_propagation,
                                   localRows[p], remoteRows[p],
                                   scan_local_files(localFs[p]),
                                   scan_remote_files(bucket[p])))
    IN /\ p \in DOMAIN pairs
       /\ returned' = [ReturnOk("preview_sync", p) EXCEPT !.preview = preview]
       /\ localRows' = [localRows EXCEPT ![p] =
                           MarkAll(@, {ch.relative_path : ch \in preview.to_delete_remote})]
       /\ remoteRows' = [remoteRows EXCEPT ![p] =
                            MarkAll(@, {ch.relative_path : ch \in preview.to_delete_local})]
       /\ UNCHANGED <<pairs, localFs, bucket, sessions, active_syncs, cancel_flag,
                      task, calls, external, since, pair_seq>>

\* a preview that is empty for a pair that does not exist
PreviewSyncEmptyForUnknown(p) ==
    /\ \E scan_ok \in BOOLEAN :
         returned' =
            IF p \notin DOMAIN pairs
            THEN ReturnOk("preview_sync", p)
            ELSE IF ~scan_ok
            THEN ReturnErr("preview_sync", p, ErrScan)
            ELSE [ReturnOk("preview_sync", p) EXCEPT
                    !.preview = FourQueues(
                        PlanPreview(pairs[p].sync_direction,
                                    pairs[p].delete_propagation,
                                    localRows[p], remoteRows[p],
                                    scan_local_files(localFs[p]),
                                    scan_remote_files(bucket[p])))]
    /\ UNCHANGED <<pairs, localFs, bucket, localRows, remoteRows, sessions,
                   active_syncs, cancel_flag, task, calls, external, since, pair_seq>>

\* preview_sync: scan, read the tracked rows, build the preview
PreviewSync(p) ==
    /\ \E scan_ok \in BOOLEAN :
         returned' =
            IF p \notin DOMAIN pairs
            THEN ReturnErr("preview_sync", p, ErrNotFound)
            ELSE IF ~scan_ok
            THEN ReturnErr("preview_sync", p, ErrScan)
            ELSE [ReturnOk("preview_sync", p) EXCEPT
                    !.preview = FourQueues(
                        PlanPreview(pairs[p].sync_direction,
                                    pairs[p].delete_propagation,
                                    localRows[p], remoteRows[p],
                                    scan_local_files(localFs[p]),
                                    scan_remote_files(bucket[p])))]
    /\ UNCHANGED <<pairs, localFs, bucket, localRows, remoteRows, sessions,
                   active_syncs, cancel_flag, task, calls, external, since, pair_seq>>

\* ------------------------------------------------------------ run_sync

\* the entries of a queue whose loop iteration has not finished yet
Remaining(t, queue) == {ch \in queue : ch.relative_path \notin t.handled}

\* loops in another order: the deletions before the transfers
PhaseDeletesFirst(t) ==
    IF Remaining(t, t.queues.to_delete_local) # {} THEN "deleting_local"
    ELSE IF Remaining(t, t.queues.to_delete_remote) # {} THEN "deleting_remote"
    ELSE IF Remaining(t, t.queues.to_upload) # {} THEN "uploading"
    ELSE IF Remaining(t, t.queues.to_download) # {} THEN "downloading"
    ELSE "finishing"

\* the loop run_sync is in: uploads, downloads, local deletes, remote deletes
Phase(t) ==
    IF Remaining(t, t.queues.to_upload) # {} THEN "uploading"
    ELSE IF Remaining(t, t.queues.to_download) # {} THEN "downloading"
    ELSE IF Remaining(t, t.queues.to_delete_local) # {} THEN "deleting_local"
    ELSE IF Remaining(t, t.queues.to_delete_remote) # {} THEN "deleting_remote"
    ELSE "finishing"

PhaseQueue(t) ==
    CASE Phase(t) = "uploading" -> Remaining(t, t.queues.to_upload)
      [] Phase(t) = "downloading" -> Remaining(t, t.queues.to_download)
      [] Phase(t) = "deleting_local" -> Remaining(t, t.queues.to_delete_local)
      [] Phase(t) = "deleting_remote" -> Remaining(t, t.queues.to_delete_remote)
      [] OTHER -> {}

\* cancel_flag.load(Ordering::Relaxed)
Cancelled(s) == cancel_flag[s]

\* a return on the set flag that is an error
CancelExitAsError(t) ==
    [t EXCEPT !.pc = "cleanup", !.result = "Cancelled", !.exit = "cancelled"]

\* run_sync returns Ok(()) because the flag is set: nothing is written
CancelExit(t) == [t EXCEPT !.pc = "cleanup", !.result = "Ok", !.exit = "cancelled"]

\* run_sync returns Err(e)
Fail(t, e) == [t EXCEPT !.pc = "cleanup", !.result = e, !.exit = "failed"]

\* total_ops: the number of planned actions
TotalOps(queues) ==
    Cardinality(queues.to_upload) + Cardinality(queues.to_download)
        + Cardinality(queues.to_delete_local) + Cardinality(queues.to_delete_remote)

\* the SyncProgressEvent built from run_sync's locals
SyncProgressEvent(t, phase, current_file) ==
    [phase |-> phase, current_file |-> current_file,
     files_processed |-> t.processed, total_files |-> TotalOps(t.queues),
     bytes_transferred |-> t.bytes_transferred]

\* let _ = app.emit("sync-progress", ...): the event is handed to the sink and
\* the result of the delivery is dropped; `event` is the last one handed over
Emit(t, phase, current_file) ==
    [t EXCEPT !.event = Some(SyncProgressEvent(t, phase, current_file))]

\* scan_current_state: the local walk and the remote listing
RunScan(s) ==
    LET t == Emit(task[s], "scanning", None)
        p == t.pair_id
    IN /\ t.pc = "scan"
       /\ \E scan_ok \in BOOLEAN :
            IF scan_ok
            THEN /\ task' = [task EXCEPT ![s] =
                                [t EXCEPT !.pc = "plan",
                                          !.local_current = scan_local_files(localFs[p]),
                                          !.remote_current = scan_remote_files(bucket[p])]]
                 /\ since' = [since EXCEPT ![p] =
                                 IF @ = "settled" THEN "settled" ELSE "scanned"]
            ELSE /\ task' = [task EXCEPT ![s] = Fail(t, ErrScan)]
                 /\ UNCHANGED since
       /\ returned' = NoReturn
       /\ UNCHANGED <<pairs, localFs, bucket, localRows, remoteRows, sessions,
                      active_syncs, cancel_flag, calls, external, pair_seq>>

\* the keys of a listing in the order S3 returns them
PathOrder == <<"a", "b">>

\* the positions of the keys after the continuation token
KeysAfter(objs, token) ==
    {i \in 1 .. Len(PathOrder) : i > token /\ IsSome(objs[PathOrder[i]])}

\* response.contents(): the first PageSize of them
PageOf(objs, token) ==
    {i \in KeysAfter(objs, token) :
        Cardinality({j \in KeysAfter(objs, token) : j < i}) < PageSize}

\* response.is_truncated() == Some(true)
IsTruncated(objs, token) == KeysAfter(objs, token) # PageOf(objs, token)

\* response.next_continuation_token()
NextToken(objs, token) ==
    CHOOSE i \in PageOf(objs, token) : \A j \in PageOf(objs, token) : j <= i

\* files.insert for every object of the page
InsertPage(files, objs, page) ==
    LET keys == {PathOrder[i] : i \in page}
    IN [q \in DOMAIN files \cup keys |->
          IF q \in keys THEN scan_remote_files(objs)[q] ELSE files[q]]

\* scan_current_state up to the first listing request: the local walk is done
\* and the request for the first page is sent
RunScanLocal(s) ==
    LET t == Emit(task[s], "scanning", None)
        p == t.pair_id
    IN /\ t.pc = "scan"
       /\ \E scan_ok \in BOOLEAN :
            IF scan_ok
            THEN /\ task' = [task EXCEPT ![s] =
                                [t EXCEPT !.pc = "list",
                                          !.local_current = scan_local_files(localFs[p]),
                                          !.token = 0, !.requests = 1]]
                 /\ since' = [since EXCEPT ![p] =
                                 IF @ = "settled" THEN "settled" ELSE "scanned"]
            ELSE /\ task' = [task EXCEPT ![s] = Fail(t, ErrScan)]
                 /\ UNCHANGED since
       /\ returned' = NoReturn
       /\ UNCHANGED <<pairs, localFs, bucket, localRows, remoteRows, sessions,
                      active_syncs, cancel_flag, calls, external, pair_seq>>

\* scan_remote_files, one turn of its loop: the response to the listing request
\* arrives (or the request fails), its objects are inserted, and if the listing
\* is truncated the request for the next page is sent, else the scan is done
RunListPage(s) ==
    LET t == task[s]
        p == t.pair_id
        objs == bucket[p]
    IN /\ t.pc = "list"
       /\ \E list_ok \in BOOLEAN :
            task' = [task EXCEPT ![s] =
                IF ~list_ok THEN Fail(t, ErrScan)
                ELSE IF IsTruncated(objs, t.token)
                THEN [t EXCEPT !.remote_current =
                                   InsertPage(@, objs, PageOf(objs, t.token)),
                               !.token = NextToken(objs, t.token),
                               !.requests = @ + 1]
                ELSE [t EXCEPT !.remote_current =
                                   InsertPage(@, objs, PageOf(objs, t.token)),
                               !.token = 0, !.pc = "plan"]]
       /\ returned' = NoReturn
       /\ UNCHANGED <<pairs, localFs, bucket, localRows, remoteRows, sessions,
                      active_syncs, cancel_flag, calls, external, since, pair_seq>>

\* the flag is polled after the scan, the previous state is read and the queues
\* are collected; the flag is polled again and the local root is created when
\* there are downloads
RunPlan(s) ==
    LET t == task[s]
        p == t.pair_id
        queues == PlanRun(t.sync_direction, t.delete_propagation, t.is_resync,
                          localRows[p], remoteRows[p],
                          t.local_current, t.remote_current)
    IN /\ t.pc = "plan"
       /\ \E mkdir_ok \in BOOLEAN :
            task' = [task EXCEPT ![s] =
                       IF Cancelled(s) THEN CancelExit(t)
                       ELSE IF queues.to_download # {} /\ ~mkdir_ok
                       THEN Fail(t, ErrMkdir)
                       ELSE [t EXCEPT !.pc = "exec", !.queues = queues]]
       /\ returned' = NoReturn
       /\ UNCHANGED <<pairs, localFs, bucket, localRows, remoteRows, sessions,
                      active_syncs, cancel_flag, calls, external, since, pair_seq>>

\* the head of a loop iteration finds the flag set: run_sync returns Ok(())
RunCancelled(s) ==
    LET t == task[s]
    IN /\ t.pc = "exec"
       /\ Phase(t) # "finishing"
       /\ Cancelled(s)
       /\ task' = [task EXCEPT ![s] = CancelExit(t)]
       /\ returned' = NoReturn
       /\ UNCHANGED <<pairs, localFs, bucket, localRows, remoteRows, sessions,
                      active_syncs, cancel_flag, calls, external, since, pair_seq>>

\* a loop whose head does not poll the flag
MayStartUnpolled(s, phase) ==
    /\ task[s].pc = "exec"
    /\ Phase(task[s]) = phase

\* a loop iteration may start: the flag, polled at its head, is not set
MayStart(s, phase) ==
    /\ task[s].pc = "exec"
    /\ Phase(task[s]) = phase
    /\ ~Cancelled(s)

\* an upload that writes the tracked rows before the put, and fails after them
RunUploadRecordsFirst(s, ch) ==
    LET t == Emit(task[s], "uploading", Some(ch.relative_path))
        p == t.pair_id
        path == ch.relative_path
        f == localFs[p][path]
    IN /\ MayStart(s, "uploading")
       /\ ch \in PhaseQueue(t)
       /\ f # None
       /\ localRows' = [localRows EXCEPT ![p] =
                           save_local_file_state(@, path, f[1].size, UnwrapOr(ch.mtime, 0))]
       /\ remoteRows' = [remoteRows EXCEPT ![p] =
                            save_remote_file_state(@, path, f[1].size, None, None)]
       /\ task' = [task EXCEPT ![s] = Fail(t, ErrPut)]
       /\ returned' = NoReturn
       /\ UNCHANGED <<pairs, localFs, bucket, sessions, active_syncs, cancel_flag,
                      calls, external, since, pair_seq>>

\* upload of the entry `ch`: the local file is read and put to the bucket
RunUpload(s, ch) ==
    LET t == Emit(task[s], "uploading", Some(ch.relative_path))
        p == t.pair_id
        path == ch.relative_path
        f == localFs[p][path]
    IN /\ MayStart(s, "uploading")
       /\ ch \in PhaseQueue(t)
       /\ \E put_ok \in BOOLEAN, now \in ClockTimes :
            IF f = None
            THEN /\ task' = [task EXCEPT ![s] = Fail(t, ErrRead)]
                 /\ UNCHANGED bucket
            ELSE IF ~put_ok
            THEN /\ task' = [task EXCEPT ![s] = Fail(t, ErrPut)]
                 /\ UNCHANGED bucket
            ELSE /\ bucket' = [bucket EXCEPT ![p][path] =
                                  Some(Object(f[1].size, Some(now)))]
                 /\ task' = [task EXCEPT ![s] =
                                [t EXCEPT !.pc = "commit", !.cur = Some(ch),
                                          !.size = f[1].size,
                                          !.bytes_transferred = @ + f[1].size,
                                          !.files_uploaded = @ + 1,
                                          !.processed = @ + 1]]
       /\ returned' = NoReturn
       /\ UNCHANGED <<pairs, localFs, localRows, remoteRows, sessions,
                      active_syncs, cancel_flag, calls, external, since, pair_seq>>

\* a download for which a missing object is an error like any other
RunDownloadFailsOnMissing(s, ch) ==
    LET t == Emit(task[s], "downloading", Some(ch.relative_path))
        p == t.pair_id
        path == ch.relative_path
        o == bucket[p][path]
    IN /\ MayStart(s, "downloading")
       /\ ch \in PhaseQueue(t)
       /\ \E io_ok \in BOOLEAN, now \in ClockTimes :
            IF o = None \/ ~io_ok
            THEN /\ task' = [task EXCEPT ![s] = Fail(t, ErrGet)]
                 /\ UNCHANGED localFs
            ELSE /\ localFs' = [localFs EXCEPT ![p][path] =
                                   Some(File(o[1].size, now))]
                 /\ task' = [task EXCEPT ![s] =
                                [t EXCEPT !.pc = "commit", !.cur = Some(ch),
                                          !.size = o[1].size,
                                          !.mtime = UnwrapOr(MtimeOf(now), 0),
                                          !.bytes_transferred = @ + o[1].size,
                                          !.files_downloaded = @ + 1,
                                          !.processed = @ + 1]]
       /\ returned' = NoReturn
       /\ UNCHANGED <<pairs, bucket, localRows, remoteRows, sessions,
                      active_syncs, cancel_flag, calls, external, since, pair_seq>>

\* download of the entry `ch`: the object is fetched and written to the local
\* file; a missing object (NoSuchKey) is skipped
RunDownload(s, ch) ==
    LET t == Emit(task[s], "downloading", Some(ch.relative_path))
        p == t.pair_id
        path == ch.relative_path
        o == bucket[p][path]
    IN /\ MayStart(s, "downloading")
       /\ ch \in PhaseQueue(t)
       /\ \E io_ok \in BOOLEAN, now \in ClockTimes :
            IF o = None
            THEN /\ task' = [task EXCEPT ![s] =
                                [t EXCEPT !.handled = @ \cup {path},
                                          !.processed = @ + 1]]
                 /\ UNCHANGED localFs
            ELSE IF ~io_ok
            THEN /\ task' = [task EXCEPT ![s] = Fail(t, ErrGet)]
                 /\ UNCHANGED localFs
            ELSE /\ localFs' = [localFs EXCEPT ![p][path] =
                                   Some(File(o[1].size, now))]
                 /\ task' = [task EXCEPT ![s] =
                                [t EXCEPT !.pc = "commit", !.cur = Some(ch),
                                          !.size = o[1].size,
                                          !.mtime = UnwrapOr(MtimeOf(now), 0),
                                          !.bytes_transferred = @ + o[1].size,
                                          !.files_downloaded = @ + 1,
                                          !.processed = @ + 1]]
       /\ returned' = NoReturn
       /\ UNCHANGED <<pairs, bucket, localRows, remoteRows, sessions,
                      active_syncs, cancel_flag, calls, external, since, pair_seq>>

\* delete-local of the entry `ch`: the local file is removed if it exists
RunDeleteLocal(s, ch) ==
    LET t == task[s]
        p == t.pair_id
        path == ch.relative_path
    IN /\ MayStart(s, "deleting_local")
       /\ ch \in PhaseQueue(t)
       /\ \E remove_ok \in BOOLEAN :
            IF localFs[p][path] # None /\ ~remove_ok
            THEN /\ task' = [task EXCEPT ![s] = Fail(t, ErrRemove)]
                 /\ UNCHANGED localFs
            ELSE /\ localFs' = [localFs EXCEPT ![p][path] = None]
                 /\ task' = [task EXCEPT ![s] =
                                [t EXCEPT !.pc = "commit", !.cur = Some(ch)]]
       /\ returned' = NoReturn
       /\ UNCHANGED <<pairs, bucket, localRows, remoteRows, sessions,
                      active_syncs, cancel_flag, calls, external, since, pair_seq>>

\* delete-remote of the entry `ch`: delete_object is sent
RunDeleteRemote(s, ch) ==
    LET t == task[s]
        p == t.pair_id
        path == ch.relative_path
    IN /\ MayStart(s, "deleting_remote")
       /\ ch \in PhaseQueue(t)
       /\ \E delete_ok \in BOOLEAN :
            IF ~delete_ok
            THEN /\ task' = [task EXCEPT ![s] = Fail(t, ErrDelete)]
                 /\ UNCHANGED bucket
            ELSE /\ bucket' = [bucket EXCEPT ![p][path] = None]
                 /\ task' = [task EXCEPT ![s] =
                                [t EXCEPT !.pc = "commit", !.cur = Some(ch)]]
       /\ returned' = NoReturn
       /\ UNCHANGED <<pairs, localFs, localRows, remoteRows, sessions,
                      active_syncs, cancel_flag, calls, external, since, pair_seq>>

\* an upload that records the modification time of a fresh stat
UploadMtimeRestat(ch, f) ==
    IF f = None THEN 0 ELSE UnwrapOr(MtimeOf(f[1].modified), 0)

\* the mtime an upload records: the scanned one, or else a fresh stat, or else 0
UploadMtime(ch, f) ==
    UnwrapOr(ch.mtime, IF f = None THEN 0 ELSE UnwrapOr(MtimeOf(f[1].modified), 0))

\* the tracked rows of both sides after the action on `ch` succeeded
CommitLocalRows(t, rows, f) ==
    LET ch == t.cur[1]
    IN CASE Phase(t) = "uploading" ->
              save_local_file_state(rows, ch.relative_path, t.size, UploadMtime(ch, f))
         [] Phase(t) = "downloading" ->
              save_local_file_state(rows, ch.relative_path, t.size, t.mtime)
         [] OTHER -> mark_local_file_deleted(rows, ch.relative_path)

\* a download that records of the object what an upload records: the size only
CommitRemoteRowsSizeOnly(t, rows) ==
    LET ch == t.cur[1]
    IN IF Phase(t) \in {"uploading", "downloading"}
       THEN save_remote_file_state(rows, ch.relative_path, t.size, None, None)
       ELSE mark_remote_file_deleted(rows, ch.relative_path)

CommitRemoteRows(t, rows) ==
    LET ch == t.cur[1]
    IN CASE Phase(t) = "uploading" ->
              save_remote_file_state(rows, ch.relative_path, t.size, None, None)
         [] Phase(t) = "downloading" ->
              save_remote_file_state(rows, ch.relative_path, t.size, ch.hash, ch.mtime)
         [] OTHER -> mark_remote_file_deleted(rows, ch.relative_path)

\* a table that takes rows of a sync pair that does not exist
SaveRefusedNever(ps, pair_id, phase) == FALSE

\* the INSERT of a tracked row after an upload or a download names a sync pair
\* that does not exist: the foreign key refuses it (the UPDATEs of the delete
\* loops find no row and succeed)
SaveRefused(ps, pair_id, phase) ==
    pair_id \notin DOMAIN ps /\ phase \in {"uploading", "downloading"}

\* the end of a loop iteration: the tracked rows of both sides are written; a
\* refused INSERT makes run_sync return the error
RunCommit(s) ==
    LET t == task[s]
        p == t.pair_id
        path == t.cur[1].relative_path
    IN /\ t.pc = "commit"
       /\ IF SaveRefused(pairs, p, Phase(t))
          THEN /\ task' = [task EXCEPT ![s] = Fail(t, ErrSaveState)]
               /\ UNCHANGED <<localRows, remoteRows>>
          ELSE /\ localRows' = [localRows EXCEPT ![p] =
                                   CommitLocalRows(t, @, localFs[p][path])]
               /\ remoteRows' = [remoteRows EXCEPT ![p] = CommitRemoteRows(t, @)]
               /\ task' = [task EXCEPT ![s] =
                              [t EXCEPT
                                 !.pc = "exec", !.cur = None, !.size = 0, !.mtime = 0,
                                 !.handled = @ \cup {path},
                                 !.files_deleted_local =
                                     IF Phase(t) = "deleting_local" THEN @ + 1 ELSE @,
                                 !.files_deleted_remote =
                                     IF Phase(t) = "deleting_remote" THEN @ + 1 ELSE @,
                                 !.processed =
                                     IF Phase(t) \in {"deleting_local", "deleting_remote"}
                                     THEN @ + 1 ELSE @]]
       /\ returned' = NoReturn
       /\ UNCHANGED <<pairs, localFs, bucket, sessions, active_syncs, cancel_flag,
                      calls, external, since, pair_seq>>

Paths_of(queue) == {ch.relative_path : ch \in queue}

\* after the loops: skipped deletions are marked, the session is completed and
\* the pair marked synced; run_sync returns Ok(())
RunFinish(s) ==
    LET t == task[s]
        p == t.pair_id
    IN /\ t.pc = "exec"
       /\ Phase(t) = "finishing"
       /\ localRows' = [localRows EXCEPT ![p] =
                           MarkAll(@, Paths_of(t.queues.skipped_local_deletions))]
       /\ remoteRows' = [remoteRows EXCEPT ![p] =
                            MarkAll(@, Paths_of(t.queues.skipped_remote_deletions))]
       /\ sessions' = complete_sync_session(
                          update_sync_session_progress(sessions, s, t), s)
       /\ pairs' = mark_sync_completed(pairs, p)
       /\ task' = [task EXCEPT ![s] =
                      [t EXCEPT !.pc = "cleanup", !.result = "Ok",
                                !.exit = "completed"]]
       /\ since' = [since EXCEPT ![p] =
                       IF @ \in {"scanned", "settled"} THEN "settled" ELSE @]
       /\ returned' = NoReturn
       /\ UNCHANGED <<localFs, bucket, active_syncs, cancel_flag, calls,
                      external, pair_seq>>

\* the spawned task after run_sync returned: the pair is removed from the
\* active-sync map; an error is recorded on the session and on the pair
RunCleanup(s) ==
    LET t == task[s]
        p == t.pair_id
    IN /\ t.pc = "cleanup"
       /\ active_syncs' = RemoveKey(active_syncs, p)
       /\ IF t.result # "Ok"
          THEN /\ sessions' = fail_sync_session(sessions, s, t.result)
               /\ pairs' = mark_sync_failed(pairs, p, t.result)
          ELSE UNCHANGED <<sessions, pairs>>
       /\ task' = [task EXCEPT ![s] = DoneTask(p, t.is_resync, t.result, t.exit)]
       /\ returned' = NoReturn
       /\ UNCHANGED <<localFs, bucket, localRows, remoteRows, cancel_flag, calls,
                      external, since, pair_seq>>

\* ------------------------------------------------- the world outside

\* another program writes, touches or removes a file of the local directory
ExtLocalWrite(p, path, f) ==
    /\ external < MaxExternal
    /\ localFs[p][path] # Some(f)
    /\ localFs' = [localFs EXCEPT ![p][path] = Some(f)]
    /\ external' = external + 1
    /\ since' = [since EXCEPT ![p] = "dirty"]
    /\ returned' = NoReturn
    /\ UNCHANGED <<pairs, bucket, localRows, remoteRows, sessions, active_syncs,
                   cancel_flag, task, calls, pair_seq>>

ExtLocalRemove(p, path) ==
    /\ external < MaxExternal
    /\ localFs[p][path] # None
    /\ localFs' = [localFs EXCEPT ![p][path] = None]
    /\ external' = external + 1
    /\ since' = [since EXCEPT ![p] = "dirty"]
    /\ returned' = NoReturn
    /\ UNCHANGED <<pairs, bucket, localRows, remoteRows, sessions, active_syncs,
                   cancel_flag, task, calls, pair_seq>>

\* another client puts or deletes an object under the prefix
ExtRemotePut(p, path, o) ==
    /\ external < MaxExternal
    /\ bucket[p][path] # Some(o)
    /\ bucket' = [bucket EXCEPT ![p][path] = Some(o)]
    /\ external' = external + 1
    /\ since' = [since EXCEPT ![p] = "dirty"]
    /\ returned' = NoReturn
    /\ UNCHANGED <<pairs, localFs, localRows, remoteRows, sessions, active_syncs,
                   cancel_flag, task, calls, pair_seq>>

ExtRemoteDelete(p, path) ==
    /\ external < MaxExternal
    /\ bucket[p][path] # None
    /\ bucket' = [bucket EXCEPT ![p][path] = None]
    /\ external' = external + 1
    /\ since' = [since EXCEPT ![p] = "dirty"]
    /\ returned' = NoReturn
    /\ UNCHANGED <<pairs, localFs, localRows, remoteRows, sessions, active_syncs,
                   cancel_flag, task, calls, pair_seq>>

\* the external changes that write one of `files` or `objects`
External(files, objects) ==
    \/ \E p \in PairIds, path \in Paths, f \in files : ExtLocalWrite(p, path, f)
    \/ \E p \in PairIds, path \in Paths : ExtLocalRemove(p, path)
    \/ \E p \in PairIds, path \in Paths, o \in objects : ExtRemotePut(p, path, o)
    \/ \E p \in PairIds, path \in Paths : ExtRemoteDelete(p, path)

\* the changes an entry of some queue can be
Changes(s) ==
    task[s].queues.to_upload \cup task[s].queues.to_download
        \cup task[s].queues.to_delete_local \cup task[s].queues.to_delete_remote

\* the steps of a run task that does not find its flag set
RunSteps ==
    \/ \E s \in SessionIds : RunScan(s)
    \/ \E s \in SessionIds : RunPlan(s)
    \/ \E s \in SessionIds : \E ch \in Changes(s) : RunUpload(s, ch)
    \/ \E s \in SessionIds : \E ch \in Changes(s) : RunDownload(s, ch)
    \/ \E s \in SessionIds : \E ch \in Changes(s) : RunDeleteLocal(s, ch)
    \/ \E s \in SessionIds : \E ch \in Changes(s) : RunDeleteRemote(s, ch)
    \/ \E s \in SessionIds : RunCommit(s)
    \/ \E s \in SessionIds : RunFinish(s)
    \/ \E s \in SessionIds : RunCleanup(s)

Run ==
    \/ RunSteps
    \/ \E s \in SessionIds : RunCancelled(s)

\* ------------------------------------------------------ specifications

PairConfigs == {NewPair(d, dp) : d \in Directions, dp \in BOOLEAN}

\* Commands one at a time: start_sync is called when no invocation is in progress
\* and no run task is alive; preview_sync at any time; the world changes at any
\* time.  The database is fresh; each path of the source side holds nothing or a
\* file / an object of size 1 written at time 1, the destination side is empty.
InitSeq ==
    \E cfg \in PairConfigs :
        IF cfg.sync_direction = "UploadOnly"
        THEN InitFresh([PairIds -> {cfg}], {None, Some(File(1, 1))}, {None})
        ELSE InitFresh([PairIds -> {cfg}], {None}, {None, Some(Object(1, Some(1)))})

\* the files and objects an external change writes: a changed size, and a file
\* whose modification time lies before the epoch
ChangedFiles == {File(2, 1), File(1, -1)}
ChangedObjects == {Object(2, Some(1))}

NoRunAlive == \A s \in SessionIds : task[s].pc \in {"none", "done"}
NoCallInProgress == \A c \in CallIds : calls[c].op = "none"

NextSeq ==
    \/ \E c \in CallIds, p \in PairIds, r \in BOOLEAN :
          /\ NoRunAlive /\ NoCallInProgress /\ Len(sessions) < MaxRuns
          /\ StartSyncCheck(c, p, r)
    \/ \E c \in CallIds : StartSyncSpawn(c)
    \/ \E p \in PairIds : PreviewSync(p)
    \/ RunSteps
    \/ External(ChangedFiles, ChangedObjects)

SpecSeq == InitSeq /\ [][NextSeq]_vars

\* Concurrent commands: start_sync and cancel_sync invocations interleave with
\* each other and with the run tasks.  The start is a state SpecSeq reaches: the
\* source side held "a" and "b"; session 1 transferred "a" and failed on "b";
\* then "a" was removed from the source side.
FirstError(direction) == IF direction = "UploadOnly" THEN ErrPut ELSE ErrGet

AfterFirstPair(cfg) ==
    [p \in PairIds |-> IF p = 1
                       THEN [cfg EXCEPT !.status = "Error",
                                        !.last_error = Some(FirstError(cfg.sync_direction))]
                       ELSE cfg]

AfterFirstLocalFs(cfg) ==
    [p \in PairIds |->
        IF p # 1 THEN [q \in Paths |-> None]
        ELSE IF cfg.sync_direction = "UploadOnly"
        THEN [q \in Paths |-> IF q = "b" THEN Some(File(1, 1)) ELSE None]
        ELSE [q \in Paths |-> IF q = "a" THEN Some(File(1, 1)) ELSE None]]

AfterFirstBucket(cfg) ==
    [p \in PairIds |->
        IF p # 1 THEN [q \in Paths |-> None]
        ELSE IF cfg.sync_direction = "UploadOnly"
        THEN [q \in Paths |-> IF q = "a" THEN Some(Object(1, Some(1))) ELSE None]
        ELSE [q \in Paths |-> IF q = "b" THEN Some(Object(1, Some(1))) ELSE None]]

AfterFirstLocalRows ==
    [p \in PairIds |->
        IF p = 1 THEN save_local_file_state(EmptyMap, "a", 1, 1) ELSE EmptyMap]

AfterFirstRemoteRows(cfg) ==
    [p \in PairIds |->
        IF p # 1 THEN EmptyMap
        ELSE IF cfg.sync_direction = "UploadOnly"
        THEN save_remote_file_state(EmptyMap, "a", 1, None, None)
        ELSE save_remote_file_state(EmptyMap, "a", 1, Some(1), Some(1))]

AfterFirstSessions(cfg) ==
    fail_sync_session(create_sync_session(<< >>, 1), 1, FirstError(cfg.sync_direction))

Init ==
    \E cfg \in PairConfigs :
        /\ pairs = AfterFirstPair(cfg)
        /\ localFs = AfterFirstLocalFs(cfg)
        /\ bucket = AfterFirstBucket(cfg)
        /\ localRows = AfterFirstLocalRows
        /\ remoteRows = AfterFirstRemoteRows(cfg)
        /\ sessions = AfterFirstSessions(cfg)
        /\ active_syncs = EmptyMap
        /\ cancel_flag = [s \in SessionIds |-> FALSE]
        /\ task = [s \in SessionIds |->
                     IF s = 1
                     THEN DoneTask(1, FALSE, FirstError(cfg.sync_direction), "failed")
                     ELSE NoTask]
        /\ calls = [c \in CallIds |-> NoCall]
        /\ returned = NoReturn
        /\ external = 1
        /\ since = [p \in PairIds |-> "dirty"]
        /\ pair_seq = MaxPairs

Next ==
    \/ \E c \in CallIds, p \in PairIds, r \in BOOLEAN : StartSyncCheck(c, p, r)
    \/ \E c \in CallIds : StartSyncSpawn(c)
    \/ \E c \in CallIds, p \in PairIds : CancelSyncSet(c, p)
    \/ \E c \in CallIds : CancelSyncRemove(c)
    \/ Run

Spec == Init /\ [][Next]_vars

\* A pair with history, commands one at a time.  The start is a state SpecSeq
\* reaches: the source side held "a" and "b" and session 1 transferred both;
\* "a" was removed from the source side; session 2 found the deletion and either
\* propagated it (both rows of "a" marked deleted) or skipped it (the
\* source-side row marked deleted, the destination's copy left in place).
AfterDeletePair(cfg) ==
    [p \in PairIds |-> IF p = 1 THEN mark_sync_completed([q \in {1} |-> cfg], 1)[1] ELSE cfg]

\* the source side holds "b"; the destination holds "b", and "a" if the deletion
\* was not propagated
AfterDeleteHeld(cfg, is_source, x) ==
    [q \in Paths |->
        IF q = "b" \/ (~is_source /\ ~cfg.delete_propagation) THEN Some(x) ELSE None]

AfterDeleteLocalFs(cfg) ==
    [p \in PairIds |->
        IF p # 1 THEN [q \in Paths |-> None]
        ELSE AfterDeleteHeld(cfg, cfg.sync_direction = "UploadOnly", File(1, 1))]

AfterDeleteBucket(cfg) ==
    [p \in PairIds |->
        IF p # 1 THEN [q \in Paths |-> None]
        ELSE AfterDeleteHeld(cfg, cfg.sync_direction = "DownloadOnly", Object(1, Some(1)))]

\* the rows session 1 wrote for "a" and "b", with "a" marked as session 2 did
AfterDeleteLocalRows(cfg) ==
    LET both == save_local_file_state(save_local_file_state(EmptyMap, "a", 1, 1), "b", 1, 1)
    IN [p \in PairIds |->
          IF p # 1 THEN EmptyMap
          ELSE IF cfg.sync_direction = "UploadOnly" \/ cfg.delete_propagation
          THEN mark_local_file_deleted(both, "a") ELSE both]

AfterDeleteRemoteRows(cfg) ==
    LET etag == IF cfg.sync_direction = "UploadOnly" THEN None ELSE Some(1)
        both == save_remote_file_state(
                    save_remote_file_state(EmptyMap, "a", 1, etag, etag), "b", 1, etag, etag)
    IN [p \in PairIds |->
          IF p # 1 THEN EmptyMap
          ELSE IF cfg.sync_direction = "DownloadOnly" \/ cfg.delete_propagation
          THEN mark_remote_file_deleted(both, "a") ELSE both]

\* the counters of sessions 1 and 2
AfterDeleteCounters(cfg, s) ==
    LET up == cfg.sync_direction = "UploadOnly"
    IN IF s = 1
       THEN [NoTask EXCEPT !.files_uploaded = IF up THEN 2 ELSE 0,
                           !.files_downloaded = IF up THEN 0 ELSE 2,
                           !.bytes_transferred = 2]
       ELSE [NoTask EXCEPT
               !.files_deleted_remote = IF up /\ cfg.delete_propagation THEN 1 ELSE 0,
               !.files_deleted_local = IF ~up /\ cfg.delete_propagation THEN 1 ELSE 0]

AfterDeleteSessions(cfg) ==
    LET s1 == complete_sync_session(
                  update_sync_session_progress(
                      create_sync_session(<< >>, 1), 1, AfterDeleteCounters(cfg, 1)), 1)
    IN complete_sync_session(
           update_sync_session_progress(
               create_sync_session(s1, 1), 2, AfterDeleteCounters(cfg, 2)), 2)

AfterDeleteTasks ==
    [s \in SessionIds |-> IF s \in {1, 2} THEN DoneTask(1, FALSE, "Ok", "completed") ELSE NoTask]

InitLater ==
    \E cfg \in PairConfigs :
        /\ pairs = AfterDeletePair(cfg)
        /\ localFs = AfterDeleteLocalFs(cfg)
        /\ bucket = AfterDeleteBucket(cfg)
        /\ localRows = AfterDeleteLocalRows(cfg)
        /\ remoteRows = AfterDeleteRemoteRows(cfg)
        /\ sessions = AfterDeleteSessions(cfg)
        /\ active_syncs = EmptyMap
        /\ cancel_flag = [s \in SessionIds |-> FALSE]
        /\ task = AfterDeleteTasks
        /\ calls = [c \in CallIds |-> NoCall]
        /\ returned = NoReturn
        /\ external = 0
        /\ since = [p \in PairIds |-> "settled"]
        /\ pair_seq = MaxPairs

\* the files and objects an external change writes in SpecLater: what the path
\* held before (same size, same time), a changed size, and a file whose
\* modification time lies before the epoch
ReturnedFiles == {File(1, 1), File(2, 1), File(1, -1)}
ReturnedObjects == {Object(1, Some(1)), Object(2, Some(1))}

NextLater ==
    \/ \E c \in CallIds, p \in PairIds, r \in BOOLEAN :
          /\ NoRunAlive /\ NoCallInProgress
          /\ StartSyncCheck(c, p, r)
    \/ \E c \in CallIds : StartSyncSpawn(c)
    \/ \E p \in PairIds : PreviewSync(p)
    \/ RunSteps
    \/ External(ReturnedFiles, ReturnedObjects)

SpecLater == InitLater /\ [][NextLater]_vars

\* --------------------------------------------------- the pair registry

\* the pair ids sqlite can give, and the arguments create_sync_pair is called with
PairKeys == 1 .. MaxCreated
Names == {"docs"}
\* <<local_path, account_id, bucket, remote_prefix>>: one tuple, and the tuples
\* that differ from it in exactly one component
EndpointInputs ==
    {<<"/l1", "acc1", "bk1", "">>, <<"/l2", "acc1", "bk1", "">>,
     <<"/l1", "acc2", "bk1", "">>, <<"/l1", "acc1", "bk2", "">>,
     <<"/l1", "acc1", "bk1", "p">>}
DirectionInputs == {"upload_only", "download_only", "bidirectional"}
\* what the local path is on disk: a directory, a regular file, or nothing
PathStates == {"dir", "file", "missing"}

ErrNoPath == "Invalid input: Local path does not exist"
ErrNotDir == "Invalid input: Local path is not a directory"
ErrDirection == "Invalid input: Unknown sync direction"
ErrCreatePair == "Storage error: Failed to create sync pair"

\* SyncDirection::try_from(&str)
SyncDirectionTryFrom(value) ==
    CASE value = "upload_only" -> Some("UploadOnly")
      [] value = "download_only" -> Some("DownloadOnly")
      [] OTHER -> None

\* the columns of UNIQUE(local_path, account_id, bucket, remote_prefix)
Endpoints(row) == <<row.local_path, row.account_id, row.bucket, row.remote_prefix>>

\* a table without the UNIQUE constraint
TupleTakenNever(ps, local_path, account_id, bucket_name, remote_prefix) == FALSE

\* the INSERT would violate the UNIQUE constraint
TupleTaken(ps, local_path, account_id, bucket_name, remote_prefix) ==
    \E p \in DOMAIN ps : Endpoints(ps[p]) = <<local_path, account_id, bucket_name, remote_prefix>>

\* the row db.create_sync_pair inserts: status 'idle', no last sync, no error
InsertedPair(name, local_path, account_id, bucket_name, remote_prefix, direction, delete_propagation) ==
    [name |-> name, local_path |-> local_path, account_id |-> account_id,
     bucket |-> bucket_name, remote_prefix |-> remote_prefix,
     sync_direction |-> direction, delete_propagation |-> delete_propagation,
     status |-> "Idle", last_sync_at |-> None, last_error |-> None]

\* create_sync_pair: the local path is validated, the direction parsed and the
\* row inserted under the next id; a failed INSERT changes nothing
CreateSyncPair(name, local_path, account_id, bucket_name, remote_prefix, sync_direction, delete_propagation, path_state) ==
    LET direction == SyncDirectionTryFrom(sync_direction)
        id == pair_seq + 1
    IN /\ IF path_state = "missing"
          THEN /\ returned' = ReturnErr("create_sync_pair", 0, ErrNoPath)
               /\ UNCHANGED <<pairs, pair_seq>>
          ELSE IF path_state = "file"
          THEN /\ returned' = ReturnErr("create_sync_pair", 0, ErrNotDir)
               /\ UNCHANGED <<pairs, pair_seq>>
          ELSE IF direction = None
          THEN /\ returned' = ReturnErr("create_sync_pair", 0, ErrDirection)
               /\ UNCHANGED <<pairs, pair_seq>>
          ELSE IF TupleTaken(pairs, local_path, account_id, bucket_name, remote_prefix)
          THEN /\ returned' = ReturnErr("create_sync_pair", 0, ErrCreatePair)
               /\ UNCHANGED <<pairs, pair_seq>>
          ELSE /\ pair_seq < MaxCreated
               /\ pairs' = InsertKey(pairs, id,
                                     InsertedPair(name, local_path, account_id, bucket_name,
                                                  remote_prefix, direction[1],
                                                  delete_propagation))
               /\ pair_seq' = id
               /\ returned' = ReturnOk("create_sync_pair", id)
       /\ UNCHANGED <<localFs, bucket, localRows, remoteRows, sessions, active_syncs,
                      cancel_flag, task, calls, external, since>>

\* delete_sync_pair: the row is deleted, and with it (ON DELETE CASCADE) the
\* tracked rows and the sessions of the pair
DeleteSyncPair(pair_id) ==
    /\ pairs' = RemoveKey(pairs, pair_id)
    /\ localRows' = IF pair_id \in DOMAIN localRows
                     THEN clear_tracked_files(localRows, pair_id) ELSE localRows
    /\ remoteRows' = IF pair_id \in DOMAIN remoteRows
                      THEN clear_tracked_files(remoteRows, pair_id) ELSE remoteRows
    /\ sessions' = [s \in DOMAIN sessions |->
                        IF sessions[s].sync_pair_id = pair_id
                        THEN NoSession ELSE sessions[s]]
    /\ returned' = ReturnOk("delete_sync_pair", pair_id)
    /\ UNCHANGED <<localFs, bucket, active_syncs, cancel_flag, task, calls,
                   external, since, pair_seq>>

\* The registry alone: an empty database; pairs are created and deleted.
InitPairs ==
    /\ pairs = EmptyMap
    /\ pair_seq = 0
    /\ localFs = [p \in PairKeys |-> [q \in Paths |-> None]]
    /\ bucket = [p \in PairKeys |-> [q \in Paths |-> None]]
    /\ localRows = [p \in PairKeys |-> EmptyMap]
    /\ remoteRows = [p \in PairKeys |-> EmptyMap]
    /\ sessions = << >>
    /\ active_syncs = EmptyMap
    /\ cancel_flag = [s \in SessionIds |-> FALSE]
    /\ task = [s \in SessionIds |-> NoTask]
    /\ calls = [c \in CallIds |-> NoCall]
    /\ returned = NoReturn
    /\ external = 0
    /\ since = [p \in PairKeys |-> "dirty"]

NextPairs ==
    \/ \E name \in Names, e \in EndpointInputs, sync_direction \in DirectionInputs,
          delete_propagation \in BOOLEAN, path_state \in PathStates :
          CreateSyncPair(name, e[1], e[2], e[3], e[4],
                         sync_direction, delete_propagation, path_state)
    \/ \E pair_id \in PairKeys : DeleteSyncPair(pair_id)

SpecPairs == InitPairs /\ [][NextPairs]_vars

\* delete_sync_pair beside runs: from the start of Spec (session 1 failed after
\* transferring "a", so the pair has tracked rows and a session), start_sync
\* and preview_sync calls and run tasks interleave with delete_sync_pair, which
\* does not look at the active-sync map.  The callers pass the ids of the pairs
\* and an id that was never given.
CallerIds == PairIds \cup {MaxPairs + 1}

NextDelete ==
    \/ \E c \in CallIds, p \in CallerIds, r \in BOOLEAN : StartSyncCheck(c, p, r)
    \/ \E c \in CallIds : StartSyncSpawn(c)
    \/ \E p \in CallerIds : PreviewSync(p)
    \/ RunSteps
    \/ \E p \in PairIds : DeleteSyncPair(p)

SpecDelete == Init /\ [][NextDelete]_vars

\* The change detector on its own: the source side of pair 1 has a non-empty
\* previous snapshot of any rows the state writes can leave (sizes 1 and 2, two
\* times, deleted or not) and holds any files or objects (absent, size 1 or 2,
\* two times, a file time before the epoch included); preview_sync is called.
DetectSizes == {1, 2}

\* the rows save_local_file_state / mark_local_file_deleted leave for a path
LocalRowsOf(path) ==
    {[save_local_file_state(EmptyMap, path, sz, mt)[path] EXCEPT !.is_deleted = d] :
        sz \in DetectSizes, mt \in {0, 1}, d \in BOOLEAN}

\* the rows save_remote_file_state / mark_remote_file_deleted leave for a path
\* after a download
RemoteRowsOf(path) ==
    {[save_remote_file_state(EmptyMap, path, sz, Some(sz), Some(mt))[path]
         EXCEPT !.is_deleted = d] :
        sz \in DetectSizes, mt \in {1, 2}, d \in BOOLEAN}

\* the non-empty snapshots over Paths whose rows are drawn by `rowsOf`
Snapshots(rowsOf) ==
    UNION {{m \in [D -> UNION {rowsOf[q] : q \in D}] :
                \A q \in D : m[q].relative_path = q} : D \in SUBSET Paths \ {{}}}

DetectFiles == {None} \cup {Some(File(sz, mt)) : sz \in DetectSizes, mt \in {-1, 1}}
DetectObjects == {None} \cup {Some(Object(sz, Some(mt))) : sz \in DetectSizes, mt \in {1, 2}}

\* the destination's rows of the tracked paths: what an upload records of the
\* object (the size), what a download records of the file it wrote
MirrorRemote(rows) ==
    [q \in DOMAIN rows |->
        [save_remote_file_state(EmptyMap, q, rows[q].size, None, None)[q]
            EXCEPT !.is_deleted = rows[q].is_deleted]]

MirrorLocal(rows) ==
    [q \in DOMAIN rows |->
        [save_local_file_state(EmptyMap, q, rows[q].size, 1)[q]
            EXCEPT !.is_deleted = rows[q].is_deleted]]

OnlyFirst(x, empty) == [p \in PairIds |-> IF p = 1 THEN x ELSE empty]

InitDetect ==
    \E cfg \in PairConfigs :
        /\ pairs = [p \in PairIds |-> cfg]
        /\ IF cfg.sync_direction = "UploadOnly"
           THEN \E rows \in Snapshots([q \in Paths |-> LocalRowsOf(q)]), fs \in [Paths -> DetectFiles] :
                   /\ localRows = OnlyFirst(rows, EmptyMap)
                   /\ remoteRows = OnlyFirst(MirrorRemote(rows), EmptyMap)
                   /\ localFs = OnlyFirst(fs, [q \in Paths |-> None])
                   /\ bucket = [p \in PairIds |-> [q \in Paths |-> None]]
           ELSE \E rows \in Snapshots([q \in Paths |-> RemoteRowsOf(q)]), objs \in [Paths -> DetectObjects] :
                   /\ remoteRows = OnlyFirst(rows, EmptyMap)
                   /\ localRows = OnlyFirst(MirrorLocal(rows), EmptyMap)
                   /\ bucket = OnlyFirst(objs, [q \in Paths |-> None])
                   /\ localFs = [p \in PairIds |-> [q \in Paths |-> None]]
        /\ sessions = << >>
        /\ active_syncs = EmptyMap
        /\ cancel_flag = [s \in SessionIds |-> FALSE]
        /\ task = [s \in SessionIds |-> NoTask]
        /\ calls = [c \in CallIds |-> NoCall]
        /\ returned = NoReturn
        /\ external = 0
        /\ since = [p \in PairIds |-> "dirty"]
        /\ pair_seq = MaxPairs

NextDetect == \E p \in PairIds : PreviewSync(p)

SpecDetect == InitDetect /\ [][NextDetect]_vars

\* The scan page by page, beside cancel_sync: a fresh database; the local
\* directory holds "a" and "b" and so does the bucket, so that a listing takes
\* more than one page.  start_sync is called when no run task is alive and no
\* call is in progress; cancel_sync is called at any time.  Nothing is deleted on either side, so
\* the delete loops have nothing to do.
InitScan ==
    InitFresh([PairIds -> PairConfigs], {Some(File(1, 1))}, {Some(Object(1, Some(1)))})

NextScan ==
    \/ \E c \in CallIds, p \in PairIds, r \in BOOLEAN :
          /\ NoRunAlive /\ NoCallInProgress /\ Len(sessions) < MaxRuns
          /\ StartSyncCheck(c, p, r)
    \/ \E c \in CallIds : StartSyncSpawn(c)
    \/ \E c \in CallIds, p \in PairIds : CancelSyncSet(c, p)
    \/ \E c \in CallIds : CancelSyncRemove(c)
    \/ \E s \in SessionIds : RunScanLocal(s)
    \/ \E s \in SessionIds : RunListPage(s)
    \/ \E s \in SessionIds : RunPlan(s)
    \/ \E s \in SessionIds : \E ch \in Changes(s) : RunUpload(s, ch)
    \/ \E s \in SessionIds : \E ch \in Changes(s) : RunDownload(s, ch)
    \/ \E s \in SessionIds : RunCommit(s)
    \/ \E s \in SessionIds : RunFinish(s)
    \/ \E s \in SessionIds : RunCleanup(s)
    \/ \E s \in SessionIds : RunCancelled(s)

SpecScan == InitScan /\ [][NextScan]_vars

\* ------------------------------------------------------------ properties

\* what preview_sync would return for pair p in this state
PreviewNow(p) ==
    FourQueues(PlanPreview(pairs[p].sync_direction, pairs[p].delete_propagation,
                           localRows[p], remoteRows[p],
                           scan_local_files(localFs[p]), scan_remote_files(bucket[p])))

\* the four queues a non-resync run of pair p started in this state would collect
NextRunNow(p) ==
    FourQueues(PlanRun(pairs[p].sync_direction, pairs[p].delete_propagation, FALSE,
                       localRows[p], remoteRows[p],
                       scan_local_files(localFs[p]), scan_remote_files(bucket[p])))

\* C1: once a run that scanned the present local tree and bucket has completed
\* (not cancelled, no error) and nothing was changed since, preview_sync and the
\* next non-resync run compute four empty queues.
C1_SecondRunDoesNothing ==
    \A p \in PairIds :
        since[p] = "settled" => PreviewNow(p) = NoPreview /\ NextRunNow(p) = NoPreview

\* C1: the second of two runs, started after the first completed with nothing
\* changed in between, has planned its queues
C1_SecondRunPlanned ==
    \E s \in SessionIds :
        /\ s > 1 /\ task[s].pc = "exec" /\ ~task[s].is_resync
        /\ since[task[s].pair_id] = "settled"
        /\ sessions[s - 1].status = "Completed"
        /\ sessions[s - 1].files_uploaded + sessions[s - 1].files_downloaded > 0

\* the run task of session s is scanning, planning or performing file actions
Executing(s) == task[s].pc \in {"scan", "list", "plan", "exec", "commit"}

\* C2: at most one run task of a pair is executing at any time, in every
\* interleaving of start_sync calls, cancel_sync calls and run-task steps.
C2_OneRunPerPair ==
    \A s1 \in SessionIds, s2 \in SessionIds :
        (s1 # s2 /\ Executing(s1) /\ Executing(s2))
            => task[s1].pair_id # task[s2].pair_id

\* C2: cancel_sync was called on a run, a later start_sync was accepted, and
\* both run tasks are executing
C2_OverlapAfterCancel ==
    \E s \in SessionIds :
        /\ s < Len(sessions) /\ cancel_flag[s] /\ ~cancel_flag[s + 1]
        /\ sessions[s + 1].sync_pair_id = sessions[s].sync_pair_id
        /\ Executing(s) /\ Executing(s + 1)
        /\ active_syncs = InsertKey(EmptyMap, sessions[s].sync_pair_id, s + 1)

\* C3: start_sync on a pair present in the active-sync map returns the error in
\* the same step, leaves no invocation waiting, creates no session and changes
\* neither the pair, nor the tracked rows, nor the map, nor the registered flag.
C3_ActivePairRejected ==
    [][\A c \in CallIds, p \in PairIds, r \in BOOLEAN :
          (p \in DOMAIN active_syncs /\ StartSyncCheck(c, p, r))
              => /\ returned' = ReturnErr("start_sync", p, ErrAlreadyRunning)
                 /\ UNCHANGED <<sessions, pairs, localRows, remoteRows,
                                active_syncs, cancel_flag, calls>>]_vars

\* C3: start_sync was just rejected for a pair whose run is alive
C3_Rejected ==
    /\ returned.op = "start_sync" /\ ~returned.ok
    /\ returned.error = ErrAlreadyRunning
    /\ returned.pair_id \in DOMAIN active_syncs
    /\ \E s \in SessionIds :
          Executing(s) /\ task[s].pair_id = returned.pair_id

\* C4: a session is Running when created, and once its run task has ended it is
\* Completed, Failed or Cancelled, however the run ended.
C4_EndedSessionHasFinalStatus ==
    \A s \in 1 .. Len(sessions) :
        /\ task[s].pc = "scan" => sessions[s].status = "Running"
        /\ task[s].pc = "done" =>
              sessions[s].status \in {"Completed", "Failed", "Cancelled"}

\* C4: a run task ended because it found its flag set
C4_CancelledRunEnded ==
    \E s \in 1 .. Len(sessions) : task[s].pc = "done" /\ task[s].exit = "cancelled"

\* every session created so far, except s, has a run task that ended
OthersEnded(s) == \A s2 \in 1 .. Len(sessions) : s2 # s => task[s2].pc = "done"

\* C5: an accepted start_sync sets the pair Syncing (whatever its status was);
\* the step that completes a run sets it Idle with the last error cleared and
\* the last-sync time set; the end of a failed run task sets it Error; and when
\* a run task ends with no other run or invocation around, the pair is not
\* Syncing.
C5_StatusLifecycle ==
    [][/\ \A c \in CallIds :
             StartSyncSpawn(c) => pairs'[calls[c].pair_id].status = "Syncing"
       /\ \A s \in SessionIds :
             LET p == task[s].pair_id
             IN /\ (task[s].pc = "exec" /\ task'[s].exit = "completed") =>
                       /\ pairs'[p].status = "Idle"
                       /\ pairs'[p].last_error = None
                       /\ pairs'[p].last_sync_at # None
                /\ (task[s].pc = "cleanup" /\ task'[s].pc = "done"
                        /\ task[s].result # "Ok") =>
                       pairs'[p].status = "Error"
                /\ (task[s].pc = "cleanup" /\ task'[s].pc = "done"
                        /\ OthersEnded(s) /\ NoCallInProgress) =>
                       pairs'[p].status \in {"Idle", "Error"}]_vars

\* C5: a pair that was in Error ran to completion and is Idle with no error
C5_CompletedAfterError ==
    \E s \in 2 .. Len(sessions) :
        /\ task[s].pc = "done" /\ task[s].exit = "completed"
        /\ sessions[s - 1].status = "Failed"
        /\ pairs[task[s].pair_id].status = "Idle"
        /\ pairs[task[s].pair_id].last_error = None

\* C6: when a run task ends with an error, no command returns it (start_sync
\* returned the session id when it spawned the task); the session becomes Failed
\* with the message, the pair Error with the same message as its last error, and
\* the pair leaves the active-sync map.
C6_RunErrorRecorded ==
    [][\A s \in SessionIds :
          LET p == task[s].pair_id
          IN /\ (task[s].pc = "none" /\ task'[s].pc = "scan") =>
                    /\ returned'.op = "start_sync" /\ returned'.ok
                    /\ returned'.session_id = s
             /\ (task[s].exit # "failed" /\ task'[s].exit = "failed") =>
                    returned' = NoReturn
             /\ (task[s].pc = "cleanup" /\ task'[s].pc = "done"
                     /\ task[s].result # "Ok") =>
                    /\ returned' = NoReturn
                    /\ sessions'[s].status = "Failed"
                    /\ sessions'[s].error_message = Some(task[s].result)
                    /\ pairs'[p].status = "Error"
                    /\ pairs'[p].last_error = Some(task[s].result)
                    /\ p \notin DOMAIN active_syncs']_vars

\* C6: a run started by start_sync failed at a file action and was recorded
C6_FailedRunRecorded ==
    \E s \in 2 .. Len(sessions) :
        /\ task[s].pc = "done" /\ task[s].exit = "failed"
        /\ task[s].result \in {ErrRead, ErrPut, ErrGet, ErrRemove, ErrDelete}
        /\ sessions[s].status = "Failed"
        /\ pairs[task[s].pair_id].last_error = Some(task[s].result)

\* C7: once the run task that cancel_sync stopped has ended (and nothing else is
\* running or being called for the pair), the pair is Idle and its last error
\* is empty.
C7_CancelledPairIdleNoError ==
    \A s \in 1 .. Len(sessions) :
        (/\ task[s].pc = "done" /\ task[s].exit = "cancelled"
         /\ OthersEnded(s) /\ NoCallInProgress)
            => /\ pairs[task[s].pair_id].status = "Idle"
               /\ pairs[task[s].pair_id].last_error = None

\* C7: a cancelled run ended and left the pair Idle
C7_CancelledRunIdle ==
    \E s \in 1 .. Len(sessions) :
        /\ task[s].pc = "done" /\ task[s].exit = "cancelled"
        /\ OthersEnded(s) /\ NoCallInProgress
        /\ pairs[task[s].pair_id].status = "Idle"

\* the step of session s starts a file action: it succeeds, fails or is skipped
StartsFileAction(s) ==
    /\ task[s].pc = "exec"
    /\ \/ task'[s].pc = "commit"
       \/ task'[s].processed > task[s].processed
       \/ task'[s].exit = "failed"

\* the rows of both sides of pair p record the action of task record t on its
\* current entry
RowsRecord(t, p, lrows, rrows) ==
    LET path == t.cur[1].relative_path
    IN IF Phase(t) \in {"uploading", "downloading"}
       THEN /\ path \in DOMAIN lrows /\ path \in DOMAIN rrows
            /\ ~lrows[path].is_deleted /\ lrows[path].size = t.size
            /\ ~rrows[path].is_deleted /\ rrows[path].size = t.size
       ELSE /\ path \in DOMAIN lrows => lrows[path].is_deleted
            /\ path \in DOMAIN rrows => rrows[path].is_deleted

\* C8: a file action starts only when the flag is not set; with the flag set
\* the next step of a run inside its loops is the return; and an action in
\* flight is finished by the write of its tracked rows, flag or no flag.
C8_FlagPolledBeforeEachAction ==
    [][\A s \in SessionIds :
          /\ StartsFileAction(s) => ~cancel_flag[s]
          /\ (task[s].pc = "exec" /\ Phase(task[s]) # "finishing"
                  /\ cancel_flag[s] /\ task'[s] # task[s]) =>
                 task'[s].exit = "cancelled" /\ task'[s].handled = task[s].handled
          /\ (task[s].pc = "commit" /\ task'[s] # task[s]) =>
                 /\ task'[s].pc = "exec"
                 /\ task[s].cur[1].relative_path \in task'[s].handled
                 /\ RowsRecord(task[s], task[s].pair_id,
                               localRows'[task[s].pair_id],
                               remoteRows'[task[s].pair_id])]_vars

\* C8: the flag was set while an action was in flight; the action was finished
\* and the run returned with entries left in its queues
C8_StoppedBetweenActions ==
    \E s \in SessionIds :
        /\ task[s].pc = "cleanup" /\ task[s].exit = "cancelled"
        /\ task[s].handled # {}
        /\ Phase(task[s]) # "finishing"

\* C9: a step in which preview_sync returns changes neither the tracked rows of
\* either side, nor the pairs, nor the sessions, nor the active-sync map, nor
\* the local tree, nor the bucket.
C9_PreviewChangesNothing ==
    [][returned'.op = "preview_sync" =>
          UNCHANGED <<localRows, remoteRows, pairs, sessions, active_syncs,
                      cancel_flag, localFs, bucket>>]_vars

\* C9: preview_sync returned a preview that lists a deletion
C9_PreviewReturned ==
    /\ returned.op = "preview_sync" /\ returned.ok
    /\ returned.preview.to_delete_local \cup returned.preview.to_delete_remote # {}

\* the run of session s has planned and not acted yet, and the local tree and
\* the bucket are as it scanned them
JustPlanned(s) ==
    /\ task[s].pc = "exec" /\ task[s].handled = {} /\ ~task[s].is_resync
    /\ task[s].local_current = scan_local_files(localFs[task[s].pair_id])
    /\ task[s].remote_current = scan_remote_files(bucket[task[s].pair_id])

\* C10: the queues a non-resync run collects are the queues preview_sync builds
\* from the same configuration, tracked rows and scan; and preview_sync called
\* when such a run has just planned returns the run's four queues.
C10_PreviewMatchesRun ==
    [][\A s \in SessionIds :
          LET p == task[s].pair_id
          IN /\ (task[s].pc = "plan" /\ task'[s].pc = "exec" /\ ~task[s].is_resync) =>
                    FourQueues(task'[s].queues) =
                        FourQueues(PlanPreview(task[s].sync_direction,
                                               task[s].delete_propagation,
                                               localRows[p], remoteRows[p],
                                               task[s].local_current,
                                               task[s].remote_current))
             /\ (JustPlanned(s) /\ returned'.op = "preview_sync" /\ returned'.ok
                     /\ returned'.pair_id = p) =>
                    returned'.preview = FourQueues(task[s].queues)]_vars

\* C10: preview_sync returned the queues of a run that has just planned, with
\* a modified or deleted entry among them
C10_SameQueues ==
    \E s \in SessionIds :
        /\ JustPlanned(s)
        /\ returned.op = "preview_sync" /\ returned.ok
        /\ returned.pair_id = task[s].pair_id
        /\ returned.preview = FourQueues(task[s].queues)
        /\ \E ch \in Changes(s) : ch.change_type \in {"Modified", "Deleted"}

\* the queues q of a pair of the given direction act on one side only
OneWay(direction, q) ==
    /\ direction = "UploadOnly" => q.to_download = {} /\ q.to_delete_local = {}
    /\ direction = "DownloadOnly" => q.to_upload = {} /\ q.to_delete_remote = {}
    /\ q.to_upload = {} \/ q.to_download = {}
    /\ q.to_delete_local = {} \/ q.to_delete_remote = {}

\* C11: the queues of every run, the queues a run or a preview would compute in
\* any state and every preview returned have empty to-download and
\* to-delete-local queues for an UploadOnly pair and empty to-upload and
\* to-delete-remote queues for a DownloadOnly pair, whatever the other side
\* holds; so at most one transfer queue and one delete queue is non-empty.
C11_DirectionExclusive ==
    /\ \A s \in SessionIds :
          task[s].pc \in {"exec", "commit", "cleanup"} =>
              OneWay(task[s].sync_direction, task[s].queues)
    /\ \A p \in PairIds :
          /\ OneWay(pairs[p].sync_direction, PreviewNow(p))
          /\ OneWay(pairs[p].sync_direction, NextRunNow(p))
    /\ (returned.op = "preview_sync" /\ returned.ok) =>
          OneWay(pairs[returned.pair_id].sync_direction, returned.preview)

\* C11: an UploadOnly run has planned uploads while the bucket holds an object
\* that another client put and that no tracked row describes
C11_RemoteChangeIgnored ==
    \E s \in SessionIds :
        /\ task[s].pc = "exec" /\ task[s].sync_direction = "UploadOnly"
        /\ task[s].queues.to_upload # {}
        /\ \E path \in DOMAIN task[s].remote_current :
              /\ path \notin DOMAIN remoteRows[task[s].pair_id]
              /\ task[s].remote_current[path].size = Some(2)

\* the tracked rows and the scan of the side a pair of this direction diffs
SourceRows(direction, lrows, rrows) == IF direction = "UploadOnly" THEN lrows ELSE rrows
SourceScan(direction, fs, objs) ==
    IF direction = "UploadOnly" THEN scan_local_files(fs) ELSE scan_remote_files(objs)

\* the files or objects of the side a pair of this direction writes to
Destination(direction, fs, objs) == IF direction = "UploadOnly" THEN objs ELSE fs

\* the deletions a run left unpropagated
Skipped(t) == t.queues.skipped_local_deletions \cup t.queues.skipped_remote_deletions

\* C12: a run of a pair with delete propagation disabled plans no delete (both
\* delete queues are empty) and none of its steps removes a file or an object
\* of the destination; when it completes, every path it found deleted on the
\* source side has a source-side tracked row with deleted = true, and change
\* detection on the rows it leaves does not report the path as Deleted.
C12_SkippedDeletionRecorded ==
    [][\A s \in SessionIds :
          LET t == task[s]
              p == t.pair_id
              d == t.sync_direction
          IN (t.pc # "none" /\ ~t.delete_propagation) =>
                /\ (t.pc = "plan" /\ task'[s].pc = "exec") =>
                       /\ task'[s].queues.to_delete_local = {}
                       /\ task'[s].queues.to_delete_remote = {}
                /\ (task'[s] # t) =>
                       \A path \in Paths :
                           Destination(d, localFs'[p], bucket'[p])[path] = None
                               => Destination(d, localFs[p], bucket[p])[path] = None
                /\ (t.pc = "exec" /\ task'[s].exit = "completed") =>
                       \A ch \in Skipped(t) :
                           LET rows == SourceRows(d, localRows'[p], remoteRows'[p])
                               path == ch.relative_path
                           IN /\ path \in DOMAIN rows /\ rows[path].is_deleted
                              /\ path \notin Paths_of(OfType(
                                     detect_changes(rows, SourceScan(d, localFs'[p], bucket'[p])),
                                     {"Deleted"}))]_vars

\* C12: a run of a pair with delete propagation disabled completed; it found a
\* path deleted on the source side, marked its source-side row and left the
\* destination's copy in place
C12_DeletionSkipped ==
    \E s \in SessionIds :
        LET t == task[s]
            p == t.pair_id
        IN /\ t.pc = "cleanup" /\ t.exit = "completed" /\ ~t.delete_propagation
           /\ \E ch \in Skipped(t) :
                 /\ Destination(t.sync_direction, localFs[p], bucket[p])[ch.relative_path] # None
                 /\ SourceRows(t.sync_direction, localRows[p], remoteRows[p])[ch.relative_path].is_deleted

\* both tracked rows of a path exist and have deleted = true
BothDeleted(lrows, rrows, path) ==
    /\ path \in DOMAIN lrows /\ lrows[path].is_deleted
    /\ path \in DOMAIN rrows /\ rrows[path].is_deleted

\* every entry a plan holds, the skipped deletions included
AllPlanned(q) ==
    q.to_upload \cup q.to_download \cup q.to_delete_local \cup q.to_delete_remote
        \cup q.skipped_local_deletions \cup q.skipped_remote_deletions

\* C13: the tracked rows of a pair come in pairs (a path has a local-side row
\* exactly when it has a remote-side row); the step that ends a successful
\* delete-local or delete-remote action leaves both rows of the path with
\* deleted = true; and a run that plans with both rows deleted and the path
\* absent from both scans plans no entry for the path.
C13_DeletionConverges ==
    [][\A s \in SessionIds :
          LET t == task[s]
              p == t.pair_id
          IN /\ t.pc # "none" => DOMAIN localRows[p] = DOMAIN remoteRows[p]
             /\ (t.pc = "commit" /\ task'[s] # t
                     /\ Phase(t) \in {"deleting_local", "deleting_remote"}) =>
                    LET path == t.cur[1].relative_path
                    IN /\ path \in DOMAIN localRows[p] =>
                              BothDeleted(localRows'[p], remoteRows'[p], path)
                       /\ path \in DOMAIN remoteRows[p] =>
                              BothDeleted(localRows'[p], remoteRows'[p], path)
             /\ (t.pc = "plan" /\ task'[s].pc = "exec") =>
                    \A path \in Paths :
                        (/\ BothDeleted(localRows[p], remoteRows[p], path)
                         /\ path \notin DOMAIN t.local_current
                         /\ path \notin DOMAIN t.remote_current)
                            => path \notin Paths_of(AllPlanned(task'[s].queues))]_vars

\* C13: a later run has planned after a run deleted a path from the
\* destination: both rows of the path are marked deleted, the path is absent on
\* both sides and the later run has no entry for it
C13_NothingPlannedAfterDelete ==
    \E s \in 2 .. Len(sessions) :
        LET p == task[s].pair_id
        IN /\ task[s].pc = "exec" /\ ~task[s].is_resync
           /\ sessions[s - 1].files_deleted_local + sessions[s - 1].files_deleted_remote > 0
           /\ \E path \in Paths :
                 /\ BothDeleted(localRows[p], remoteRows[p], path)
                 /\ localFs[p][path] = None /\ bucket[p][path] = None
                 /\ path \notin DOMAIN task[s].local_current
                 /\ path \notin DOMAIN task[s].remote_current
                 /\ path \notin Paths_of(AllPlanned(task[s].queues))

\* the transfer queue of a plan of this direction
TransferQueue(direction, q) == IF direction = "UploadOnly" THEN q.to_upload ELSE q.to_download

\* every path of the scan whose row in `rows` has deleted = true is in the
\* transfer queue of q as New, and q has no other entry for it
ReappearedAreNew(direction, rows, current, q) ==
    \A path \in DOMAIN current :
        (path \in DOMAIN rows /\ rows[path].is_deleted) =>
            /\ \E ch \in TransferQueue(direction, q) :
                  ch.relative_path = path /\ ch.change_type = "New"
            /\ \A ch \in AllPlanned(q) :
                  ch.relative_path = path => ch.change_type = "New"

\* C14: a path present in the scan whose row on the diffed side has
\* deleted = true is queued for transfer as New, never as Modified and never
\* left out as Unchanged, by preview_sync in every state and by every run that
\* plans, whatever the size and the modification time of the file or object;
\* and the step that records its transfer leaves both rows of the path with
\* deleted = false.
C14_ReappearedIsNew ==
    [][/\ \A p \in PairIds :
             ReappearedAreNew(pairs[p].sync_direction,
                              SourceRows(pairs[p].sync_direction, localRows[p], remoteRows[p]),
                              SourceScan(pairs[p].sync_direction, localFs[p], bucket[p]),
                              [NoQueues EXCEPT
                                  !.to_upload = PreviewNow(p).to_upload,
                                  !.to_download = PreviewNow(p).to_download,
                                  !.to_delete_local = PreviewNow(p).to_delete_local,
                                  !.to_delete_remote = PreviewNow(p).to_delete_remote])
       /\ \A s \in SessionIds :
             LET t == task[s]
                 p == t.pair_id
                 d == t.sync_direction
             IN /\ (t.pc = "plan" /\ task'[s].pc = "exec") =>
                       ReappearedAreNew(d, SourceRows(d, localRows[p], remoteRows[p]),
                                        IF d = "UploadOnly" THEN t.local_current
                                        ELSE t.remote_current,
                                        task'[s].queues)
                /\ (t.pc = "commit" /\ task'[s] # t
                        /\ Phase(t) \in {"uploading", "downloading"}) =>
                       LET path == t.cur[1].relative_path
                       IN /\ path \in DOMAIN localRows'[p] /\ ~localRows'[p][path].is_deleted
                          /\ path \in DOMAIN remoteRows'[p] /\ ~remoteRows'[p][path].is_deleted]_vars

\* C14: "a" came back on the source side with the size and the time its deleted
\* row holds; a non-resync run queued it as New, transferred it, and both rows
\* of "a" have deleted = false again
C14_ReturnedAndTransferred ==
    \E s \in SessionIds :
        LET t == task[s]
            p == t.pair_id
        IN /\ t.pc = "exec" /\ ~t.is_resync /\ "a" \in t.handled
           /\ \E ch \in TransferQueue(t.sync_direction, t.queues) :
                 /\ ch.relative_path = "a" /\ ch.change_type = "New"
                 /\ ch.size = Some(1) /\ ch.mtime = Some(1)
           /\ "a" \in DOMAIN localRows[p] /\ ~localRows[p]["a"].is_deleted
           /\ "a" \in DOMAIN remoteRows[p] /\ ~remoteRows[p]["a"].is_deleted
           /\ sessions[2] = AfterDeleteSessions(pairs[p])[2]

\* q is the full-transfer plan of the scan `current`: every scanned file is in
\* the transfer queue as New, and the other action queues are empty
IsBootstrap(direction, current, q) ==
    /\ TransferQueue(direction, q) =
           {[relative_path |-> path, change_type |-> "New", size |-> current[path].size,
             mtime |-> current[path].mtime, hash |-> current[path].hash] :
                path \in DOMAIN current}
    /\ direction = "UploadOnly" => q.to_download = {}
    /\ direction = "DownloadOnly" => q.to_upload = {}
    /\ q.to_delete_local = {} /\ q.to_delete_remote = {}

\* C15: when the pair has no tracked row on the side it diffs (local for
\* UploadOnly, remote for DownloadOnly), preview_sync in that state returns, and
\* a run that plans in that state collects, every file of that side's scan in
\* the transfer queue as New and nothing in the other queues.
C15_Bootstrap ==
    [][/\ \A p \in PairIds :
             LET d == pairs[p].sync_direction
             IN DOMAIN SourceRows(d, localRows[p], remoteRows[p]) = {} =>
                   IsBootstrap(d, SourceScan(d, localFs[p], bucket[p]), PreviewNow(p))
       /\ \A s \in SessionIds :
             LET t == task[s]
                 p == t.pair_id
                 d == t.sync_direction
             IN (/\ t.pc = "plan" /\ task'[s].pc = "exec"
                 /\ DOMAIN SourceRows(d, localRows[p], remoteRows[p]) = {}) =>
                    /\ IsBootstrap(d, IF d = "UploadOnly" THEN t.local_current
                                      ELSE t.remote_current,
                                   task'[s].queues)
                    /\ Skipped(task'[s]) = {}]_vars

\* C15: the first run of a pair has planned with no tracked row: both files of
\* the source side are queued as New
C15_FirstRunTransfersAll ==
    \E s \in SessionIds :
        LET t == task[s]
            p == t.pair_id
        IN /\ t.pc = "exec" /\ ~t.is_resync /\ t.handled = {}
           /\ localRows[p] = EmptyMap /\ remoteRows[p] = EmptyMap
           /\ Cardinality(TransferQueue(t.sync_direction, t.queues)) = 2
           /\ \A ch \in TransferQueue(t.sync_direction, t.queues) : ch.change_type = "New"

\* C16: the step in which start_sync with is_resync = true is accepted leaves
\* the pair with no tracked row on either side; and whatever rows the pair has
\* when the resync run plans, its plan is the plan a non-resync run makes from
\* the same scan with no tracked rows: every scanned file of the source side in
\* the transfer queue as New, no delete and no skipped deletion.
C16_ResyncPlansAsFirstRun ==
    [][/\ \A c \in CallIds :
             (calls[c].pc = "checked" /\ calls[c].is_resync /\ calls'[c] # calls[c]) =>
                 /\ localRows'[calls[c].pair_id] = EmptyMap
                 /\ remoteRows'[calls[c].pair_id] = EmptyMap
       /\ \A s \in SessionIds :
             LET t == task[s]
                 d == t.sync_direction
             IN (t.pc = "plan" /\ task'[s].pc = "exec" /\ t.is_resync) =>
                    /\ task'[s].queues =
                           PlanRun(d, t.delete_propagation, FALSE, EmptyMap, EmptyMap,
                                   t.local_current, t.remote_current)
                    /\ IsBootstrap(d, IF d = "UploadOnly" THEN t.local_current
                                      ELSE t.remote_current,
                                   task'[s].queues)
                    /\ Skipped(task'[s]) = {}]_vars

\* C16: a resync run has planned on a pair that had tracked rows: "b", whose
\* file is on the source side and which had no row, is queued as New, and the
\* rows of "a", which session 1 transferred, are gone
C16_ResyncPlanned ==
    \E s \in 2 .. Len(sessions) :
        LET t == task[s]
            p == t.pair_id
        IN /\ t.pc = "exec" /\ t.is_resync /\ t.handled = {}
           /\ localRows[p] = EmptyMap /\ remoteRows[p] = EmptyMap
           /\ Paths_of(TransferQueue(t.sync_direction, t.queues)) = {"b"}

\* the step of session s ends a successful action on the path: the upload put
\* the object, the download wrote the file, the delete removed it
ActionDone(t, t2, fs2, objs2) ==
    LET path == t2.cur[1].relative_path
        ph == Phase(t2)
    IN CASE ph = "uploading" -> objs2[path] # None /\ objs2[path][1].size = t2.size
         [] ph = "downloading" -> fs2[path] # None /\ fs2[path][1].size = t2.size
         [] ph = "deleting_local" -> fs2[path] = None
         [] OTHER -> objs2[path] = None

\* the paths whose row differs between two tables of tracked rows
RowsChanged(rows, rows2) ==
    {path \in DOMAIN rows \cup DOMAIN rows2 :
        path \notin DOMAIN rows \/ path \notin DOMAIN rows2 \/ rows[path] # rows2[path]}

\* C17: the step that passes an action's success on to the write of its tracked
\* rows has performed the upload, the download or the delete and has written no
\* row yet; tracked rows are written only by the step that follows such a
\* success (for the path of that action only), by the marking of skipped
\* deletions when a run completes, and by an accepted resync; and the steps in
\* which a run returns an error or returns because of the flag, and the end of
\* its task, change neither the local directory, nor the bucket, nor a tracked
\* row.
C17_WritesFollowSuccess ==
    [][/\ \A s \in SessionIds :
             LET t == task[s]
                 p == t.pair_id
             IN /\ (t.pc = "exec" /\ task'[s].pc = "commit") =>
                       /\ ActionDone(t, task'[s], localFs'[p], bucket'[p])
                       /\ UNCHANGED <<localRows, remoteRows>>
                /\ (t.pc # "none" /\ task'[s] # t
                        /\ task'[s].pc \in {"cleanup", "done"}
                        /\ task'[s].exit \in {"failed", "cancelled"}) =>
                       UNCHANGED <<localFs, bucket, localRows, remoteRows>>
       /\ \A p \in PairIds :
             LET changed == RowsChanged(localRows[p], localRows'[p])
                                \cup RowsChanged(remoteRows[p], remoteRows'[p])
             IN changed # {} =>
                   \/ \E s \in SessionIds :
                         /\ task[s].pair_id = p /\ task[s].pc = "commit"
                         /\ task'[s].pc = "exec"
                         /\ changed = {task[s].cur[1].relative_path}
                   \/ \E s \in SessionIds :
                         /\ task[s].pair_id = p /\ task[s].pc = "exec"
                         /\ task'[s].exit = "completed"
                         /\ changed \subseteq Paths_of(Skipped(task[s]))
                   \/ \E c \in CallIds :
                         /\ calls[c].pc = "checked" /\ calls[c].pair_id = p
                         /\ calls[c].is_resync /\ calls'[c] # calls[c]]_vars

\* C17: a run transferred "b" and recorded it, then failed at the delete of
\* "a": the copy of "b" and its two rows are in place
C17_FailedAfterTransfer ==
    \E s \in 2 .. Len(sessions) :
        LET t == task[s]
            p == t.pair_id
        IN /\ t.pc = "cleanup" /\ t.exit = "failed" /\ t.handled = {"b"}
           /\ t.result \in {ErrRemove, ErrDelete}
           /\ Destination(t.sync_direction, localFs[p], bucket[p])["b"] # None
           /\ "b" \in DOMAIN localRows[p] /\ ~localRows[p]["b"].is_deleted
           /\ "b" \in DOMAIN remoteRows[p] /\ ~remoteRows[p]["b"].is_deleted

\* the entries of the four queues of a run whose action was not completed and
\* recorded when the run returned
Pending(t) ==
    [to_upload |-> Remaining(t, t.queues.to_upload),
     to_download |-> Remaining(t, t.queues.to_download),
     to_delete_local |-> Remaining(t, t.queues.to_delete_local),
     to_delete_remote |-> Remaining(t, t.queues.to_delete_remote)]

\* the run of session s returned from inside its loops with an error or because
\* of the flag, and nothing outside changed the local directory or the bucket
\* since it scanned them
Interrupted(s) ==
    /\ task[s].pc = "cleanup" /\ task[s].exit \in {"failed", "cancelled"}
    /\ Changes(s) # {}
    /\ since[task[s].pair_id] \in {"scanned", "settled"}

\* C18: when a run has returned partway with an error or a cancellation and
\* nothing changed outside, the four queues a non-resync run started now would
\* collect are the entries of the interrupted run that were not completed and
\* recorded: none is missing and no recorded transfer is queued again.
C18_NextRunResumes ==
    \A s \in SessionIds : Interrupted(s) => NextRunNow(task[s].pair_id) = Pending(task[s])

\* C18: a run recorded one transfer and then failed at the next one, with
\* nothing changed outside since its scan
C18_InterruptedAfterTransfer ==
    \E s \in SessionIds :
        /\ Interrupted(s) /\ task[s].exit = "failed"
        /\ task[s].handled # {}
        /\ Pending(task[s]) # NoPreview

\* the number of queue entries a run went through without an upload, a download
\* or a delete: the downloads it skipped
SkippedDownloads(t) ==
    t.processed - (t.files_uploaded + t.files_downloaded
                       + t.files_deleted_local + t.files_deleted_remote)

\* C19: the step of a run that gets a queued download whose object is missing
\* does not end the run; it writes no tracked row and no local file, counts
\* neither a download nor bytes, and leaves every other entry of the queue to
\* be processed.
C19_MissingObjectSkipped ==
    [][\A s \in SessionIds : \A ch \in task[s].queues.to_download :
          LET t == task[s]
              p == t.pair_id
          IN (RunDownload(s, ch) /\ bucket[p][ch.relative_path] = None) =>
                /\ task'[s].pc = "exec" /\ task'[s].exit = "none"
                /\ task'[s].result = "pending"
                /\ task'[s].files_downloaded = t.files_downloaded
                /\ task'[s].bytes_transferred = t.bytes_transferred
                /\ Remaining(task'[s], t.queues.to_download)
                       = Remaining(t, t.queues.to_download) \ {ch}
                /\ UNCHANGED <<localRows, remoteRows, localFs, bucket, sessions, pairs>>]_vars

\* C19: a run skipped a download whose object had been deleted after the scan,
\* downloaded the other queued object and completed; the skipped path has no
\* tracked row and the session counts one download
C19_CompletedAfterSkip ==
    \E s \in 1 .. Len(sessions) :
        LET t == task[s]
            p == t.pair_id
        IN /\ t.pc = "cleanup" /\ t.exit = "completed"
           /\ SkippedDownloads(t) = 1 /\ t.files_downloaded = 1
           /\ sessions[s].status = "Completed" /\ sessions[s].files_downloaded = 1
           /\ \E path \in t.handled :
                 /\ path \notin DOMAIN remoteRows[p] /\ path \notin DOMAIN localRows[p]
                 /\ localFs[p][path] = None

\* no two rows of a pair table bind the same endpoints
UniqueEndpoints(ps) ==
    \A p1 \in DOMAIN ps, p2 \in DOMAIN ps :
        p1 # p2 => Endpoints(ps[p1]) # Endpoints(ps[p2])

\* C20: before and after every step no two sync pairs have the same (local
\* path, account, bucket, remote prefix); a create_sync_pair call adds a pair
\* only if no existing pair has its tuple, and then returns the new id; and a
\* create_sync_pair call that returns an error (the refused INSERT included)
\* changes neither the pairs nor the id sequence.
C20_PairsUnique ==
    [][/\ UniqueEndpoints(pairs) /\ UniqueEndpoints(pairs')
       /\ \A id \in DOMAIN pairs' \ DOMAIN pairs :
             /\ \A p \in DOMAIN pairs : Endpoints(pairs[p]) # Endpoints(pairs'[id])
             /\ returned' = ReturnOk("create_sync_pair", id)
       /\ returned'.op = "create_sync_pair" =>
             IF returned'.ok
             THEN DOMAIN pairs' = DOMAIN pairs \cup {returned'.pair_id}
                     /\ returned'.pair_id \notin DOMAIN pairs
             ELSE UNCHANGED <<pairs, pair_seq>>]_vars

\* C20: the registry holds two pairs that differ in the remote prefix only,
\* and the INSERT of a create_sync_pair call has just been refused
C20_DuplicateRefused ==
    /\ returned.op = "create_sync_pair" /\ ~returned.ok
    /\ returned.error = ErrCreatePair
    /\ \E p1 \in DOMAIN pairs, p2 \in DOMAIN pairs :
          /\ p1 # p2
          /\ pairs[p1].local_path = pairs[p2].local_path
          /\ pairs[p1].account_id = pairs[p2].account_id
          /\ pairs[p1].bucket = pairs[p2].bucket
          /\ pairs[p1].remote_prefix # pairs[p2].remote_prefix

\* no tracked row and no session row names a sync pair that does not exist
NoOrphans(ps, lrows, rrows, ss) ==
    /\ \A p \in DOMAIN lrows : lrows[p] # EmptyMap => p \in DOMAIN ps
    /\ \A p \in DOMAIN rrows : rrows[p] # EmptyMap => p \in DOMAIN ps
    /\ \A s \in DOMAIN ss : ss[s] # NoSession => ss[s].sync_pair_id \in DOMAIN ps

TerminalStatuses == {"Completed", "Failed", "Cancelled"}

CancelState == [pairs |-> pairs, active_syncs |-> active_syncs, cancel_flag |-> cancel_flag]

\* one whole cancel_sync(pair_id) with no other step in between
cancel_sync(st, pair_id) ==
    [pairs |-> update_sync_pair_status(st.pairs, pair_id, "Idle"),
     active_syncs |-> RemoveKey(st.active_syncs, pair_id),
     cancel_flag |-> StoreFlag(st.active_syncs, st.cancel_flag, pair_id)]

\* C23: from every state, one cancel_sync leaves the registered flag set, the
\* pair out of the active-sync map and its status Idle, and a second one right
\* after it leaves that same state; the two steps of a cancel_sync call do what
\* the whole does; a call for a pair that is Idle and has no registered sync
\* changes nothing; and cancel_sync returns Ok, registered sync or not.
C23_CancelIdempotent ==
    [][/\ \A p \in PairIds :
             LET once == cancel_sync(CancelState, p)
             IN /\ cancel_sync(once, p) = once
                /\ p \notin DOMAIN once.active_syncs
                /\ p \in DOMAIN pairs => once.pairs[p].status = "Idle"
                /\ p \in DOMAIN active_syncs => once.cancel_flag[active_syncs[p]]
       /\ \A c \in CallIds, p \in PairIds :
             CancelSyncSet(c, p) =>
                /\ pairs' = cancel_sync(CancelState, p).pairs
                /\ cancel_flag' = cancel_sync(CancelState, p).cancel_flag
                /\ (p \notin DOMAIN active_syncs /\ pairs[p].status = "Idle") =>
                       UNCHANGED <<pairs, cancel_flag, active_syncs>>
       /\ \A c \in CallIds :
             CancelSyncRemove(c) =>
                /\ active_syncs' = cancel_sync(CancelState, calls[c].pair_id).active_syncs
                /\ calls[c].pair_id \notin DOMAIN active_syncs => UNCHANGED active_syncs
       /\ returned'.op = "cancel_sync" =>
             /\ returned'.ok
             /\ returned'.pair_id \notin DOMAIN active_syncs'
             /\ UNCHANGED <<pairs, cancel_flag, sessions, localRows, remoteRows>>]_vars

\* C23: a cancel_sync has set the flag of a run that is still going on and
\* removed its pair from the map (the pair is Idle); a further cancel_sync of
\* the pair, the only call in progress, is past its first step
C23_SecondCancelInProgress ==
    \E c \in CallIds, s \in SessionIds :
        /\ calls[c].op = "cancel_sync" /\ calls[c].pc = "remove"
        /\ \A d \in CallIds : d # c => calls[d].op = "none"
        /\ Executing(s) /\ task[s].pair_id = calls[c].pair_id /\ cancel_flag[s]
        /\ calls[c].pair_id \notin DOMAIN active_syncs
        /\ pairs[calls[c].pair_id].status = "Idle"

\* the database and the active-sync map, the flags and the run tasks are as
\* they were, and so are the local trees and the buckets
NothingChanged ==
    UNCHANGED <<pairs, localRows, remoteRows, sessions, active_syncs, cancel_flag,
                task, localFs, bucket, pair_seq>>

\* C24: start_sync and preview_sync called with an id that names no pair (one
\* never given, or the id of a deleted pair) return "Sync pair not found" in the
\* step of the call; no invocation is left in progress, no session is created,
\* no entry added to the active-sync map, no run task spawned, and the pairs,
\* the tracked rows and the sessions are unchanged.
C24_UnknownPairRejected ==
    [][/\ \A c \in CallIds, p \in CallerIds, r \in BOOLEAN :
             (p \notin DOMAIN pairs /\ StartSyncCheck(c, p, r)) =>
                /\ returned' = ReturnErr("start_sync", p, ErrNotFound)
                /\ UNCHANGED calls /\ NothingChanged
       /\ \A p \in CallerIds :
             (p \notin DOMAIN pairs /\ PreviewSync(p)) =>
                /\ returned' = ReturnErr("preview_sync", p, ErrNotFound)
                /\ UNCHANGED calls /\ NothingChanged
       /\ (returned'.op \in {"start_sync", "preview_sync"}
              /\ returned'.pair_id \notin DOMAIN pairs /\ NoCallInProgress) =>
             ~returned'.ok /\ NothingChanged]_vars

\* C24: start_sync was just refused for the id of a pair that was deleted
\* while a run of it is still going on
C24_DeletedPairRefused ==
    /\ returned = ReturnErr("start_sync", returned.pair_id, ErrNotFound)
    /\ returned.pair_id \in PairIds \ DOMAIN pairs
    /\ \E s \in SessionIds : Executing(s) /\ task[s].pair_id = returned.pair_id

\* what the claim gives a path: its change type, or "none" when the path is not
\* in the result
Expected(previous, current, path) ==
    IF path \in DOMAIN current
    THEN IF path \notin DOMAIN previous THEN "New"
         ELSE IF previous[path].is_deleted THEN "New"
         ELSE IF previous[path].size # current[path].size[1] THEN "Modified"
         ELSE IF previous[path].mtime_ms # current[path].mtime THEN "Modified"
         ELSE "none"
    ELSE IF path \in DOMAIN previous /\ ~previous[path].is_deleted THEN "Deleted"
    ELSE "none"

\* the result of detect_changes is the classification of the claim
Classified(previous, current) ==
    LET result == detect_changes(previous, current)
    IN /\ \A path \in Paths :
             IF Expected(previous, current, path) = "none"
             THEN path \notin DOMAIN result
             ELSE /\ path \in DOMAIN result
                  /\ result[path].relative_path = path
                  /\ result[path].change_type = Expected(previous, current, path)
       /\ DOMAIN result \subseteq Paths
       /\ \A ch \in Values(result) : ch.change_type \in {"New", "Modified", "Deleted"}

\* C25: for the non-empty previous snapshot of the source side and what the
\* scan finds there, detect_changes gives each path exactly the type of the
\* claim (New: in current with no record or a deleted one; Modified: a live
\* record whose size or time differs; Deleted: a live record absent from
\* current), leaves out unchanged paths and deleted records still absent, and
\* never gives Unchanged; and the preview returned carries these changes.
C25_Classification ==
    \A p \in PairIds :
        LET previous == SourceRows(pairs[p].sync_direction, localRows[p], remoteRows[p])
            current == SourceScan(pairs[p].sync_direction, localFs[p], bucket[p])
            result == detect_changes(previous, current)
        IN previous # EmptyMap =>
              /\ Classified(previous, current)
              /\ (returned.op = "preview_sync" /\ returned.ok /\ returned.pair_id = p) =>
                    /\ TransferQueue(pairs[p].sync_direction, returned.preview)
                           = OfType(result, {"New", "Modified"})
                    /\ pairs[p].delete_propagation =>
                           returned.preview.to_delete_local
                               \cup returned.preview.to_delete_remote
                                  = OfType(result, {"Deleted"})

\* C25: a DownloadOnly pair whose object "a" changed size between two runs and
\* whose object "b" is gone: the preview lists "a" as Modified and "b" as Deleted
C25_ModifiedAndDeleted ==
    /\ returned.op = "preview_sync" /\ returned.ok
    /\ pairs[1].sync_direction = "DownloadOnly"
    /\ {ch.change_type : ch \in returned.preview.to_download} = {"Modified"}
    /\ {ch.relative_path : ch \in returned.preview.to_download} = {"a"}
    /\ remoteRows[1]["a"].size = 1 /\ bucket[1]["a"][1].size = 2
    /\ {ch.relative_path : ch \in returned.preview.to_delete_local} = {"b"}

\* the queues of the loops that come before the loop of `queue` are drained and
\* no action of the run is in flight
EarlierDrained(t, earlier) ==
    /\ t.pc = "exec" /\ t.cur = None
    /\ \A queue \in earlier : Remaining(t, queue) = {}

\* C26: a run starts an upload only with no action in flight; a download only
\* when every upload has finished; a local delete only when every upload and
\* download has finished; a remote delete only when every upload, download and
\* local delete has finished; each action is on an entry of its own queue not
\* handled yet; and the skipped deletions are marked and the session completed
\* only when the four queues are drained.
C26_ExecutorOrder ==
    [][\A s \in SessionIds :
          LET t == task[s]
              q == t.queues
          IN /\ \A ch \in Changes(s) :
                   /\ RunUpload(s, ch) =>
                          ch \in Remaining(t, q.to_upload) /\ EarlierDrained(t, {})
                   /\ RunDownload(s, ch) =>
                          /\ ch \in Remaining(t, q.to_download)
                          /\ EarlierDrained(t, {q.to_upload})
                   /\ RunDeleteLocal(s, ch) =>
                          /\ ch \in Remaining(t, q.to_delete_local)
                          /\ EarlierDrained(t, {q.to_upload, q.to_download})
                   /\ RunDeleteRemote(s, ch) =>
                          /\ ch \in Remaining(t, q.to_delete_remote)
                          /\ EarlierDrained(t, {q.to_upload, q.to_download,
                                                q.to_delete_local})
             /\ RunFinish(s) =>
                   EarlierDrained(t, {q.to_upload, q.to_download, q.to_delete_local,
                                      q.to_delete_remote})
             /\ (s \in DOMAIN sessions /\ sessions'[s].status = "Completed"
                    /\ sessions[s].status # "Completed") =>
                   EarlierDrained(t, {q.to_upload, q.to_download, q.to_delete_local,
                                      q.to_delete_remote})
             /\ (task'[s].pc = "commit" /\ t.pc # "commit") =>
                   t.pc = "exec" /\ t.cur = None]_vars

\* C26: a run that uploaded a file is deleting an object, its upload queue
\* drained
C26_DeleteAfterUpload ==
    \E s \in SessionIds :
        /\ task[s].pc = "commit" /\ task[s].files_uploaded > 0
        /\ task[s].cur[1] \in task[s].queues.to_delete_remote
        /\ task[s].queues.to_upload # {}
        /\ Remaining(task[s], task[s].queues.to_upload) = {}

\* C27: a run sends a listing request only when its flag is not set: once
\* cancel_sync has set the flag of a run that is listing, the number of
\* listing requests of that run does not grow.
C27_NoPageAfterCancel ==
    [][\A s \in SessionIds :
          (task[s].pc = "list" /\ cancel_flag[s]) =>
              task'[s].requests = task[s].requests]_vars

\* C27: the flag of a run was set while its first listing request was in
\* flight, and the run has sent a second one
C27_CancelledWhileListing ==
    \E s \in SessionIds :
        /\ task[s].pc = "list" /\ cancel_flag[s]
        /\ task[s].requests = 2

\* the run of session s has not finished its scan and planning
BeforeActions(t) == t.pc \in {"scan", "list", "plan"}

\* the run of session s returned on the set flag before its first file action
StoppedEarly(t) ==
    /\ t.pc \in {"cleanup", "done"} /\ t.exit = "cancelled"
    /\ t.queues = NoQueues /\ t.handled = {}

\* what a run can write: files, objects, tracked rows, sessions
RunWrites == <<localFs, bucket, localRows, remoteRows, sessions>>

\* C28: a run whose flag is set while it scans (page by page) or plans writes
\* nothing in its remaining steps: no file, no object, no tracked row, no
\* session; if its scan does not fail it returns at the poll after the scan,
\* with no queue collected and nothing processed; from then on its session is
\* Running with no completion time and no error, and no step changes it.
C28_CancelBeforeActions ==
    [][\A s \in SessionIds :
          LET t == task[s]
          IN /\ (BeforeActions(t) /\ cancel_flag[s] /\ task'[s] # t) =>
                   /\ UNCHANGED RunWrites
                   /\ task'[s].pc \in {"list", "plan", "cleanup"}
                   /\ task'[s].handled = {} /\ task'[s].processed = 0
                   /\ task'[s].queues = NoQueues
                   /\ t.pc = "plan" => StoppedEarly(task'[s])
             /\ StoppedEarly(t) =>
                   /\ sessions[s].status = "Running"
                   /\ sessions[s].completed_at = None
                   /\ sessions[s].error_message = None
                   /\ sessions'[s] = sessions[s]
                   /\ task'[s] # t => UNCHANGED <<localFs, bucket, localRows, remoteRows>>
                   /\ StoppedEarly(task'[s])]_vars

\* C28: a run returned on the set flag at the poll after its scan and its
\* task has ended; a later run of the pair has completed, and the session of
\* the cancelled run is still Running
C28_StillRunning ==
    \E s \in SessionIds :
        /\ s < Len(sessions)
        /\ task[s].pc = "done" /\ StoppedEarly(task[s])
        /\ sessions[s].status = "Running"
        /\ sessions[s + 1].status = "Completed"

\* the step is the end of a successful iteration of the loop `phase` in the run
\* of session s: both tracked rows of the entry have been written
Committed(s, phase) ==
    /\ task[s].pc = "commit" /\ Phase(task[s]) = phase
    /\ task'[s].pc = "exec"

C30_DownloadRecordsScan ==
    [][\A s \in SessionIds :
          Committed(s, "downloading") =>
             LET t == task[s]
                 ch == t.cur[1]
                 lrow == localRows'[t.pair_id][ch.relative_path]
                 rrow == remoteRows'[t.pair_id][ch.relative_path]
             IN /\ lrow.size = t.size /\ lrow.mtime_ms = Some(t.mtime)
                /\ ~lrow.is_deleted
                /\ Some(rrow.size) = ch.size
                /\ rrow.mtime_ms = ch.mtime /\ rrow.etag = ch.hash
                /\ ~rrow.is_deleted]_vars

\* C30 (amended): after a successful download both rows hold the length of the
\* content that was fetched and written, which is the scanned size when nothing
\* changed since the scan; the local row holds the modification time statted
\* after the write (the written file itself when nothing changed since); the
\* remote row holds the last-modified time and the etag the scan observed;
\* neither row is deleted.
C30_DownloadRecordsContent ==
    [][\A s \in SessionIds :
          Committed(s, "downloading") =>
             LET t == task[s]
                 ch == t.cur[1]
                 f == localFs[t.pair_id][ch.relative_path]
                 lrow == localRows'[t.pair_id][ch.relative_path]
                 rrow == remoteRows'[t.pair_id][ch.relative_path]
             IN /\ lrow.size = t.size /\ rrow.size = t.size
                /\ lrow.mtime_ms = Some(t.mtime)
                /\ external = 0 =>
                      /\ Some(rrow.size) = ch.size
                      /\ f = Some(File(lrow.size, lrow.mtime_ms[1]))
                /\ rrow.mtime_ms = ch.mtime /\ rrow.etag = ch.hash
                /\ ~lrow.is_deleted /\ ~rrow.is_deleted]_vars

\* C30: a download has been recorded whose object grew between the scan and the
\* fetch: the remote row holds the fetched size next to the scanned etag
C30_DownloadedAfterChange ==
    \E s \in SessionIds : \E ch \in task[s].queues.to_download :
        LET p == task[s].pair_id
            path == ch.relative_path
        IN /\ task[s].pc = "exec" /\ path \in task[s].handled
           /\ path \in DOMAIN localRows[p] /\ path \in DOMAIN remoteRows[p]
           /\ ch.size # Some(remoteRows[p][path].size)
           /\ remoteRows[p][path].etag = ch.hash /\ ch.hash # None
           /\ remoteRows[p][path].mtime_ms = ch.mtime
           /\ localRows[p][path].size = remoteRows[p][path].size

\* C31: every step that processes a file, in any of the four loops, hands over
\* a progress event carrying the loop's phase, the path of the file, and the
\* processed count, the total and the bytes accumulated so far; in every event
\* processed <= total, and from one event of a run to the next neither the
\* processed count nor the bytes decrease.  (The result of the delivery is
\* dropped by the code, so no step depends on it.)
C31_ProgressPerFile ==
    [][\A s \in SessionIds :
          LET t == task[s]
              ev == task'[s].event
          IN /\ StartsFileAction(s) =>
                   /\ ev # None
                   /\ ev[1].phase = Phase(t)
                   /\ ev[1].current_file \in
                          {Some(ch.relative_path) : ch \in PhaseQueue(t)}
                   /\ task'[s].cur # None =>
                          ev[1].current_file = Some(task'[s].cur[1].relative_path)
                   /\ ev[1].files_processed = t.processed
                   /\ ev[1].total_files = TotalOps(t.queues)
                   /\ ev[1].bytes_transferred = t.bytes_transferred
             /\ ev # None => ev[1].files_processed <= ev[1].total_files
             /\ (t.event # None /\ ev # None) =>
                   /\ ev[1].files_processed >= t.event[1].files_processed
                   /\ ev[1].bytes_transferred >= t.event[1].bytes_transferred]_vars

\* C31: a remote delete has been performed and the last progress event of the
\* run is still the one of the scan
C31_DeletedWithoutEvent ==
    \E s \in SessionIds :
        /\ task[s].pc = "commit" /\ Phase(task[s]) = "deleting_remote"
        /\ task[s].event = Some(SyncProgressEvent(NoTask, "scanning", None))

\* C32: a step in which start_sync returns an error to its caller leaves the
\* pairs, the active-sync map, the sessions, the flags and the tracked rows of
\* both sides as they were (the earlier step of the call, the check, changes
\* none of them either).
C32_FailedStartAtomic ==
    [][(returned'.op = "start_sync" /\ ~returned'.ok) =>
          UNCHANGED <<pairs, active_syncs, sessions, cancel_flag, localRows, remoteRows>>]_vars

\* C32: start_sync has returned the credential error for a pair that it left
\* Syncing, with an entry in the active-sync map that belongs to a Running
\* session for which no run task exists
C32_StuckAfterFailedStart ==
    /\ returned.op = "start_sync" /\ ~returned.ok /\ returned.error = ErrCredential
    /\ LET p == returned.pair_id
       IN /\ pairs[p].status = "Syncing"
          /\ AlreadyActive(p)
          /\ sessions[active_syncs[p]].status = "Running"
          /\ task[active_syncs[p]].pc = "none"

\* C33: after every step, each run task that is scanning, planning or acting
\* and has not been cancelled finds, in the active-sync map under its pair, its
\* own flag; and the clean-up of a run changes no entry that belongs to another
\* run.
C33_LiveRunCancellable ==
    [][\A s \in SessionIds :
          LET p == task'[s].pair_id
          IN /\ (task'[s].pc \in {"scan", "list", "plan", "exec", "commit"}
                    /\ ~cancel_flag'[s]) =>
                   (p \in DOMAIN active_syncs' /\ active_syncs'[p] = s)
             /\ (task[s].pc = "cleanup" /\ task'[s].pc = "done"
                    /\ p \in DOMAIN active_syncs /\ active_syncs[p] # s) =>
                   active_syncs' = active_syncs]_vars

\* C33: the clean-up of a cancelled run has ended and the later run of the same
\* pair, not cancelled and still acting, has no entry in the active-sync map
C33_LaterRunUnregistered ==
    \E s \in SessionIds :
        /\ s < Len(sessions)
        /\ task[s].pc = "done" /\ task[s].exit = "cancelled"
        /\ task[s + 1].pair_id = task[s].pair_id
        /\ Executing(s + 1) /\ ~cancel_flag[s + 1]
        /\ ~AlreadyActive(task[s].pair_id)

\* the delete queues of a plan name only paths that the source side tracks as
\* not deleted and the scan of the source side did not find; the queue of the
\* other direction is empty, and both are empty on a resync
DeletesTracked(queues, direction, is_resync, lrows, rrows, lcur, rcur) ==
    /\ \A ch \in queues.to_delete_remote :
          /\ direction = "UploadOnly"
          /\ ch.relative_path \in DOMAIN lrows
          /\ ~lrows[ch.relative_path].is_deleted
          /\ ch.relative_path \notin DOMAIN lcur
    /\ \A ch \in queues.to_delete_local :
          /\ direction = "DownloadOnly"
          /\ ch.relative_path \in DOMAIN rrows
          /\ ~rrows[ch.relative_path].is_deleted
          /\ ch.relative_path \notin DOMAIN rcur
    /\ is_resync => queues.to_delete_remote = {} /\ queues.to_delete_local = {}

\* C34: the delete queues a run plans, and those preview_sync returns, name
\* only paths with a non-deleted tracked record on the source side that the
\* current scan of the source side lacks; bootstrap and resync plans delete
\* nothing; and a run removes a file or an object only at a path the source
\* side tracks.
C34_DeletesOnlyTracked ==
    [][/\ \A s \in SessionIds :
            LET t == task[s]
                p == t.pair_id
            IN (t.pc = "plan" /\ task'[s].pc = "exec") =>
                 DeletesTracked(task'[s].queues, t.sync_direction, t.is_resync,
                                localRows[p], remoteRows[p],
                                t.local_current, t.remote_current)
       /\ (returned'.op = "preview_sync" /\ returned'.ok) =>
            LET p == returned'.pair_id
            IN DeletesTracked(returned'.preview, pairs[p].sync_direction, FALSE,
                              localRows[p], remoteRows[p],
                              scan_local_files(localFs[p]), scan_remote_files(bucket[p]))
       /\ \A p \in PairIds, path \in Paths :
            /\ (external' = external /\ bucket[p][path] # None /\ bucket'[p][path] = None)
                  => path \in DOMAIN localRows[p]
            /\ (external' = external /\ localFs[p][path] # None /\ localFs'[p][path] = None)
                  => path \in DOMAIN remoteRows[p]]_vars

\* C34: a run has removed from the bucket the object of a path whose file is
\* gone from the local directory, while the bucket holds an object at another
\* path
C34_TrackedPathDeleted ==
    \E s \in SessionIds :
        LET p == task[s].pair_id
        IN /\ task[s].pc = "commit" /\ Phase(task[s]) = "deleting_remote"
           /\ bucket[p][task[s].cur[1].relative_path] = None
           /\ \E q \in Paths : bucket[p][q] # None

\* ------------------------------------------- changes between scan and transfer

\* Commands one at a time on a fresh database, as in SpecSeq; each path of the
\* source side holds a file written at time 1 or before the epoch, or an object
\* written at time 1 or none.  The world touches a file or rewrites an object,
\* giving it the modification time 2, while no transfer is in flight.
InitRace ==
    \E cfg \in PairConfigs :
        IF cfg.sync_direction = "UploadOnly"
        THEN InitFresh([PairIds -> {cfg}], {Some(File(1, 1)), Some(File(1, -1))}, {None})
        ELSE InitFresh([PairIds -> {cfg}], {None}, {None, Some(Object(1, Some(1)))})

TouchedFiles == {File(1, 2)}
TouchedObjects == {Object(1, Some(2))}

NoTransferInFlight == \A s \in SessionIds : task[s].pc # "commit"

NextRace ==
    \/ \E c \in CallIds, p \in PairIds, r \in BOOLEAN :
          /\ NoRunAlive /\ NoCallInProgress /\ Len(sessions) < MaxRuns
          /\ StartSyncCheck(c, p, r)
    \/ \E c \in CallIds : StartSyncSpawn(c)
    \/ \E p \in PairIds : PreviewSync(p)
    \/ RunSteps
    \/ NoTransferInFlight /\ External(TouchedFiles, TouchedObjects)

SpecRace == InitRace /\ [][NextRace]_vars

\* C35: when the rows of a transfer are written and the source file (object)
\* has, since the scan, got another modification time, the source-side row
\* holds the scanned modification time, and detect_changes classifies the path
\* as Modified against the file (object) as it is now, so that the next run
\* transfers it again.
C35_ChangeSeenByNextRun ==
    [][\A s \in SessionIds :
          LET t == task[s]
              p == t.pair_id
              ch == t.cur[1]
              path == ch.relative_path
          IN /\ (Committed(s, "uploading") /\ localFs[p][path] # None
                   /\ MtimeOf(localFs[p][path][1].modified) # ch.mtime) =>
                   /\ localRows'[p][path].mtime_ms = ch.mtime
                   /\ Classify(localRows'[p], path,
                               scan_local_files(localFs[p])[path]) = "Modified"
             /\ (Committed(s, "downloading") /\ bucket[p][path] # None
                   /\ bucket[p][path][1].last_modified # ch.mtime) =>
                   /\ remoteRows'[p][path].mtime_ms = ch.mtime
                   /\ Classify(remoteRows'[p], path,
                               scan_remote_files(bucket[p])[path]) = "Modified"]_vars

\* C35: a file scanned with no modification time was touched before its upload;
\* the upload has recorded the time of the touched file, and the next run
\* planned nothing for the path
C35_TouchedFileSettled ==
    \E s \in SessionIds : \E path \in Paths :
        LET p == task[s].pair_id
        IN /\ s > 1 /\ task[s].pc = "exec" /\ ~task[s].is_resync
           /\ task[s].queues = NoQueues
           /\ sessions[s - 1].status = "Completed" /\ sessions[s - 1].files_uploaded = 2
           /\ external = 1
           /\ localFs[p][path] = Some(File(1, 2))
           /\ localRows[p][path].mtime_ms = Some(2)

\* ------------------------------------------------ counters of a session

\* The pair of Init (session 1 transferred "a" and failed on "b", then "a" was
\* removed from the source side), with commands one at a time and one more
\* change of the world to come.
InitCount ==
    \E cfg \in PairConfigs :
        /\ pairs = AfterFirstPair(cfg)
        /\ localFs = AfterFirstLocalFs(cfg)
        /\ bucket = AfterFirstBucket(cfg)
        /\ localRows = AfterFirstLocalRows
        /\ remoteRows = AfterFirstRemoteRows(cfg)
        /\ sessions = AfterFirstSessions(cfg)
        /\ active_syncs = EmptyMap
        /\ cancel_flag = [s \in SessionIds |-> FALSE]
        /\ task = [s \in SessionIds |->
                     IF s = 1
                     THEN DoneTask(1, FALSE, FirstError(cfg.sync_direction), "failed")
                     ELSE NoTask]
        /\ calls = [c \in CallIds |-> NoCall]
        /\ returned = NoReturn
        /\ external = 0
        /\ since = [p \in PairIds |-> "dirty"]
        /\ pair_seq = MaxPairs

NextCount ==
    \/ \E c \in CallIds, p \in PairIds, r \in BOOLEAN :
          /\ NoRunAlive /\ NoCallInProgress
          /\ StartSyncCheck(c, p, r)
    \/ \E c \in CallIds : StartSyncSpawn(c)
    \/ RunSteps
    \/ External(ChangedFiles, ChangedObjects)

SpecCount == InitCount /\ [][NextCount]_vars

\* the four per-type counters and the bytes of a task or session record
Counters(r) ==
    <<r.files_uploaded, r.files_downloaded, r.files_deleted_local,
      r.files_deleted_remote, r.bytes_transferred>>

\* 1 if the condition holds, else 0
Count(cond) == IF cond THEN 1 ELSE 0

\* C36: in every step of a run inside its loops each per-type counter grows by
\* one exactly when the run performs an action of that type: an upload puts the
\* object, a download writes the file, a local delete removes a file that was
\* there, a remote delete removes the object; a download skipped for a missing
\* object is not counted; the bytes grow by the size of the transferred file.
\* The counters of a session change only in the step that completes it, which
\* writes the counters of the run, and their sum is at most the number of
\* planned actions (the skipped deletions are none of them).
C36_CountersMatchActions ==
    [][\A s \in SessionIds :
          LET t == task[s]
              u == task'[s]
              p == t.pair_id
              starts(phase) == t.pc = "exec" /\ u.pc = "commit" /\ Phase(t) = phase
              ends(phase) == t.pc = "commit" /\ u.pc = "exec" /\ Phase(t) = phase
              path == u.cur[1].relative_path
          IN /\ (t.pc \in {"exec", "commit"} /\ u.pc \in {"exec", "commit"}) =>
                   /\ u.files_uploaded = t.files_uploaded + Count(starts("uploading"))
                   /\ u.files_downloaded = t.files_downloaded + Count(starts("downloading"))
                   /\ u.files_deleted_local =
                         t.files_deleted_local + Count(ends("deleting_local"))
                   /\ u.files_deleted_remote =
                         t.files_deleted_remote + Count(ends("deleting_remote"))
                   /\ starts("uploading") =>
                         /\ bucket'[p][path] # None
                         /\ u.bytes_transferred =
                               t.bytes_transferred + bucket'[p][path][1].size
                   /\ starts("downloading") =>
                         /\ localFs'[p][path] # None
                         /\ u.bytes_transferred =
                               t.bytes_transferred + localFs'[p][path][1].size
                   /\ ~(starts("uploading") \/ starts("downloading")) =>
                         u.bytes_transferred = t.bytes_transferred
                   /\ starts("deleting_local") =>
                         localFs[p][path] # None /\ localFs'[p][path] = None
                   /\ starts("deleting_remote") => bucket'[p][path] = None
             /\ (s \in DOMAIN sessions /\ s \in DOMAIN sessions'
                   /\ HasSession(sessions', s)
                   /\ Counters(sessions'[s]) # Counters(sessions[s])) =>
                   /\ sessions[s].status = "Running"
                   /\ sessions'[s].status = "Completed"
                   /\ Counters(sessions'[s]) = Counters(t)
                   /\ t.files_uploaded + t.files_downloaded + t.files_deleted_local
                         + t.files_deleted_remote <= TotalOps(t.queues)]_vars

\* C36: a run is about to perform its only planned local delete, and the file
\* is already gone from the local directory
C36_DeleteOfMissingFile ==
    \E s \in SessionIds :
        /\ task[s].pc = "exec" /\ Phase(task[s]) = "deleting_local"
        /\ Cardinality(task[s].queues.to_delete_local) = 1
        /\ \A ch \in PhaseQueue(task[s]) :
              localFs[task[s].pair_id][ch.relative_path] = None

\* ------------------------------------------------------------- two pairs

\* One pair more than the other specifications have, the first UploadOnly and
\* the others DownloadOnly, all propagating deletions.  Every local directory
\* holds "a" and every prefix holds "b"; an earlier synchronisation tracked the
\* path the source side has lost since, so a run transfers one path and deletes
\* the other.  start_sync and cancel_sync are called for either pair when no
\* other invocation is in progress, preview_sync at any time, and the run tasks
\* of the pairs interleave with the commands and with each other.
TwoIds == 1 .. MaxPairs + 1

TwoLost(p) == IF p = 1 THEN "b" ELSE "a"

InitTwo ==
    /\ pairs = [p \in TwoIds |-> NewPair(IF p = 1 THEN "UploadOnly" ELSE "DownloadOnly", TRUE)]
    /\ localFs = [p \in TwoIds |-> [q \in Paths |-> IF q = "a" THEN Some(File(1, 1)) ELSE None]]
    /\ bucket = [p \in TwoIds |-> [q \in Paths |-> IF q = "b" THEN Some(Object(1, Some(1))) ELSE None]]
    /\ localRows = [p \in TwoIds |-> save_local_file_state(EmptyMap, TwoLost(p), 1, 1)]
    /\ remoteRows = [p \in TwoIds |-> save_remote_file_state(EmptyMap, TwoLost(p), 1, None, Some(1))]
    /\ sessions = << >>
    /\ active_syncs = EmptyMap
    /\ cancel_flag = [s \in SessionIds |-> FALSE]
    /\ task = [s \in SessionIds |-> NoTask]
    /\ calls = [c \in CallIds |-> NoCall]
    /\ returned = NoReturn
    /\ external = 0
    /\ since = [p \in TwoIds |-> "dirty"]
    /\ pair_seq = MaxPairs + 1

NextTwo ==
    \/ \E c \in CallIds, p \in TwoIds, r \in BOOLEAN :
          /\ NoCallInProgress /\ Len(sessions) < MaxRuns
          /\ StartSyncCheck(c, p, r)
    \/ \E c \in CallIds : StartSyncSpawn(c)
    \/ \E c \in CallIds, p \in TwoIds : NoCallInProgress /\ CancelSyncSet(c, p)
    \/ \E c \in CallIds : CancelSyncRemove(c)
    \/ \E p \in TwoIds : PreviewSync(p)
    \/ Run

SpecTwo == InitTwo /\ [][NextTwo]_vars

\* the pairs a step acts for: the pair of every run task that moves, of every
\* command invocation that begins, proceeds or ends, and of the returned result
Actors ==
    {task'[s].pair_id : s \in {x \in SessionIds : task'[x] # task[x]}}
        \cup {calls[c].pair_id : c \in {x \in CallIds : calls'[x] # calls[x] /\ calls[x].op # "none"}}
        \cup {calls'[c].pair_id : c \in {x \in CallIds : calls'[x] # calls[x] /\ calls'[x].op # "none"}}
        \cup (IF returned'.op # "none" THEN {returned'.pair_id} ELSE {})

\* the step leaves pair B as it is: its row (status, last error), its tracked
\* rows of both sides, its sessions with their flags, and its registered flag
Untouched(B) ==
    /\ pairs'[B] = pairs[B]
    /\ localRows'[B] = localRows[B] /\ remoteRows'[B] = remoteRows[B]
    /\ \A s \in DOMAIN sessions' :
          sessions'[s].sync_pair_id = B =>
             /\ s \in DOMAIN sessions /\ sessions'[s] = sessions[s]
             /\ cancel_flag'[s] = cancel_flag[s]
    /\ \A s \in DOMAIN sessions :
          sessions[s].sync_pair_id = B => sessions'[s].sync_pair_id = B
    /\ (B \in DOMAIN active_syncs) = (B \in DOMAIN active_syncs')
    /\ B \in DOMAIN active_syncs => active_syncs'[B] = active_syncs[B]

\* C37: every step acts for at most one pair, and leaves every other pair
\* untouched: status, last error, tracked rows, sessions and flags.
C37_PairIndependence ==
    [][/\ Cardinality(Actors) <= 1
       /\ \A B \in TwoIds : B \notin Actors => Untouched(B)]_vars

\* C37: runs of two pairs are alive at the same time; one has transferred a
\* file and the other has been cancelled
C37_TwoRunsInterleaved ==
    \E s1 \in SessionIds, s2 \in SessionIds :
        /\ task[s1].pair_id = 1 /\ task[s2].pair_id = 2
        /\ task[s1].pc = "exec" /\ task[s1].handled # {}
        /\ Executing(s2) /\ cancel_flag[s2]
        /\ "a" \in DOMAIN localRows[1] /\ pairs[1].status = "Syncing"
        /\ pairs[2].status = "Idle"

\* ------------------------------------------- cancel_sync with nothing to cancel

\* the pair has no active run: no registered flag, no run task executing, no
\* start_sync in progress
NoActiveRun(p) ==
    /\ p \notin DOMAIN active_syncs
    /\ \A s \in SessionIds : Executing(s) => task[s].pair_id # p
    /\ \A c \in CallIds : calls[c].op = "start_sync" => calls[c].pair_id # p

\* the step is a step of a cancel_sync invocation for the pair
CancelStep(p) ==
    \E c \in CallIds :
        /\ calls'[c] # calls[c]
        /\ \/ calls'[c].op = "cancel_sync" /\ calls'[c].pair_id = p
           \/ calls[c].op = "cancel_sync" /\ calls[c].pair_id = p

\* C38: a step of cancel_sync for a pair that has no active run changes
\* nothing of the pair: its status (Error included), its last error, its
\* sessions, its tracked rows, the flags and the active-sync map.
C38_CancelWithoutRunNoOp ==
    [][\A p \in PairIds :
          (NoActiveRun(p) /\ CancelStep(p))
             => UNCHANGED <<pairs, sessions, localRows, remoteRows, cancel_flag, active_syncs>>]_vars

\* C38: cancel_sync has returned for a pair that never had a run since its
\* failed one; the pair is Idle and still carries the error of that run
C38_ErrorTurnedIdle ==
    /\ returned.op = "cancel_sync" /\ returned.ok
    /\ Len(sessions) = 1 /\ sessions[1].status = "Failed"
    /\ pairs[returned.pair_id].status = "Idle"
    /\ pairs[returned.pair_id].last_error # None

\* ------------------------------------------------ the tracked-file tables

\* In this specification localRows and remoteRows hold the tables
\* sync_local_files and sync_remote_files themselves: sets of rows with their id,
\* pair, path and last_seen_at columns.  Nothing runs; the four store
\* operations are applied to keys of two pairs and two paths (of one pair in the
\* remote table).
StoreKeys == {<<1, "a">>, <<1, "b">>, <<2, "a">>}
StoreRemoteKeys == {k \in StoreKeys : k[1] = 1}
StoreSizes == {1, 2}
StoreTimes == {1, 2}
StoreHashes == {None, Some("h")}
StoreEtags == {None, Some("e")}

\* INTEGER PRIMARY KEY AUTOINCREMENT (no row of these tables is removed here)
NextId(table) ==
    IF table = {} THEN 1
    ELSE 1 + (CHOOSE n \in {r.id : r \in table} : \A r \in table : r.id <= n)

\* the rows that hit UNIQUE(sync_pair_id, relative_path)
Conflict(table, pair_id, relative_path) ==
    {r \in table : r.sync_pair_id = pair_id /\ r.relative_path = relative_path}

\* an INSERT with no ON CONFLICT clause into a table with no UNIQUE constraint
UpsertRowNoConflict(table, pair_id, relative_path, columns, now) ==
    table \cup {columns @@ [id |-> NextId(table), sync_pair_id |-> pair_id,
                            relative_path |-> relative_path, is_deleted |-> FALSE,
                            last_seen_at |-> now]}

\* INSERT ... VALUES (.., 0, now) ON CONFLICT(sync_pair_id, relative_path)
\* DO UPDATE SET <columns> = excluded.<columns>, is_deleted = 0, last_seen_at
UpsertRow(table, pair_id, relative_path, columns, now) ==
    LET old == Conflict(table, pair_id, relative_path)
        row(id) == columns @@ [id |-> id, sync_pair_id |-> pair_id,
                               relative_path |-> relative_path, is_deleted |-> FALSE,
                               last_seen_at |-> now]
    IN IF old = {} THEN table \cup {row(NextId(table))}
       ELSE (table \ old) \cup {row(r.id) : r \in old}

LocalColumns(size, mtime_ms, content_hash) ==
    [size |-> size, mtime_ms |-> mtime_ms, content_hash |-> content_hash]

RemoteColumns(size, etag, last_modified, content_hash) ==
    [size |-> size, etag |-> etag, last_modified |-> last_modified,
     content_hash |-> content_hash]

\* UPDATE ... SET is_deleted = 1, last_seen_at = now WHERE sync_pair_id = ?2
\* AND relative_path = ?3
MarkRowDeleted(table, pair_id, relative_path, now) ==
    {IF r.sync_pair_id = pair_id /\ r.relative_path = relative_path
     THEN [r EXCEPT !.is_deleted = TRUE, !.last_seen_at = now] ELSE r : r \in table}

\* get_local_file_states / get_remote_file_states as the run task uses them: the
\* rows of a pair by path, without id and last_seen_at
LocalView(table, pair_id) ==
    [q \in {r.relative_path : r \in {x \in table : x.sync_pair_id = pair_id}} |->
        LET r == CHOOSE x \in table : x.sync_pair_id = pair_id /\ x.relative_path = q
        IN [relative_path |-> q, size |-> r.size, mtime_ms |-> Some(r.mtime_ms),
            etag |-> None, content_hash |-> r.content_hash, is_deleted |-> r.is_deleted]]

RemoteView(table, pair_id) ==
    [q \in {r.relative_path : r \in {x \in table : x.sync_pair_id = pair_id}} |->
        LET r == CHOOSE x \in table : x.sync_pair_id = pair_id /\ x.relative_path = q
        IN [relative_path |-> q, size |-> r.size, mtime_ms |-> r.last_modified,
            etag |-> r.etag, content_hash |-> r.content_hash, is_deleted |-> r.is_deleted]]

StoreFrame ==
    UNCHANGED <<pairs, localFs, bucket, sessions, active_syncs, cancel_flag, task,
                calls, returned, external, since, pair_seq>>

StoreSaveLocal(k, size, now) ==
    /\ localRows' = UpsertRow(localRows, k[1], k[2], LocalColumns(size, 1, None), now)
    /\ UNCHANGED remoteRows /\ StoreFrame

StoreMarkLocal(k, now) ==
    /\ localRows' = MarkRowDeleted(localRows, k[1], k[2], now)
    /\ UNCHANGED remoteRows /\ StoreFrame

StoreSaveRemote(k, size, now) ==
    /\ remoteRows' = UpsertRow(remoteRows, k[1], k[2], RemoteColumns(size, None, Some(1), None), now)
    /\ UNCHANGED localRows /\ StoreFrame

StoreMarkRemote(k, now) ==
    /\ remoteRows' = MarkRowDeleted(remoteRows, k[1], k[2], now)
    /\ UNCHANGED localRows /\ StoreFrame

InitStore ==
    /\ pairs = [p \in {k[1] : k \in StoreKeys} |-> NewPair("UploadOnly", FALSE)]
    /\ localFs = [p \in {k[1] : k \in StoreKeys} |-> [q \in Paths |-> None]]
    /\ bucket = [p \in {k[1] : k \in StoreKeys} |-> [q \in Paths |-> None]]
    /\ localRows = {}
    /\ remoteRows = {}
    /\ sessions = << >>
    /\ active_syncs = EmptyMap
    /\ cancel_flag = [s \in SessionIds |-> FALSE]
    /\ task = [s \in SessionIds |-> NoTask]
    /\ calls = [c \in CallIds |-> NoCall]
    /\ returned = NoReturn
    /\ external = 0
    /\ since = [p \in {k[1] : k \in StoreKeys} |-> "settled"]
    /\ pair_seq = Cardinality({k[1] : k \in StoreKeys})

NextStore ==
    \/ \E k \in StoreKeys, size \in StoreSizes, now \in ClockTimes : StoreSaveLocal(k, size, now)
    \/ \E k \in StoreKeys, now \in ClockTimes : StoreMarkLocal(k, now)
    \/ \E k \in StoreRemoteKeys, size \in StoreSizes, now \in ClockTimes : StoreSaveRemote(k, size, now)
    \/ \E k \in StoreRemoteKeys, now \in ClockTimes : StoreMarkRemote(k, now)

SpecStore == InitStore /\ [][NextStore]_vars

OneRowPerKey(table) ==
    \A r1 \in table, r2 \in table :
        (r1.sync_pair_id = r2.sync_pair_id /\ r1.relative_path = r2.relative_path) => r1 = r2

\* `after` is `table` with the columns saved under the key: one row holds the
\* key, with the saved columns, not deleted, under the id the key had; every
\* other row is as it was
SavedUnder(table, after, k, columns, now) ==
    /\ OneRowPerKey(after)
    /\ Cardinality(Conflict(after, k[1], k[2])) = 1
    /\ \A r \in Conflict(after, k[1], k[2]) :
          /\ \A col \in DOMAIN columns : r[col] = columns[col]
          /\ ~r.is_deleted /\ r.last_seen_at = now
          /\ \A o \in Conflict(table, k[1], k[2]) : r.id = o.id
          /\ Conflict(table, k[1], k[2]) = {} => \A o \in table : r.id # o.id
    /\ after \ Conflict(after, k[1], k[2]) = table \ Conflict(table, k[1], k[2])

\* `after` is `table` with the key marked deleted: an existing row is kept with
\* all its columns but the mark (and the time it was seen); no row is created
MarkedUnder(table, after, k, now) ==
    /\ Conflict(table, k[1], k[2]) = {} => after = table
    /\ Cardinality(after) = Cardinality(table)
    /\ \A o \in Conflict(table, k[1], k[2]) :
          [o EXCEPT !.is_deleted = TRUE, !.last_seen_at = now] \in after
    /\ after \ Conflict(after, k[1], k[2]) = table \ Conflict(table, k[1], k[2])

\* C39: on every table the store reaches, saving a file state is an upsert
\* keyed by pair, side and path: the table holds one row per key, the row of
\* the key gets the saved size, time and hash and deleted = false, and the
\* rows of other keys and of the other side stay; saving the same state twice
\* leaves the table that saving it once leaves; mark-deleted sets deleted =
\* true on an existing row, keeps it, and creates no row; and the rows by path
\* that the run task reads change as save_*_file_state and
\* mark_*_file_deleted say.
C39_StoreOperations ==
    /\ OneRowPerKey(localRows) /\ OneRowPerKey(remoteRows)
    /\ \A k \in StoreKeys, size \in StoreSizes, h \in StoreHashes, t1 \in StoreTimes, t2 \in StoreTimes :
          LET cols == LocalColumns(size, t1, h)
              once == UpsertRow(localRows, k[1], k[2], cols, t2)
              twice == UpsertRow(UpsertRow(localRows, k[1], k[2], cols, t1), k[1], k[2], cols, t2)
              marked == MarkRowDeleted(localRows, k[1], k[2], t1)
          IN /\ SavedUnder(localRows, once, k, cols, t2)
             /\ twice = once
             /\ MarkedUnder(localRows, marked, k, t1)
             /\ \A p \in {x[1] : x \in StoreKeys} :
                   /\ LocalView(marked, p) =
                         IF p = k[1] THEN mark_local_file_deleted(LocalView(localRows, p), k[2])
                         ELSE LocalView(localRows, p)
                   /\ h = None =>
                         LocalView(once, p) =
                           IF p = k[1] THEN save_local_file_state(LocalView(localRows, p), k[2], size, t1)
                           ELSE LocalView(localRows, p)
    /\ \A k \in StoreKeys, size \in StoreSizes, e \in StoreEtags, h \in StoreHashes, t1 \in StoreTimes, t2 \in StoreTimes :
          LET cols == RemoteColumns(size, e, Some(t1), h)
              once == UpsertRow(remoteRows, k[1], k[2], cols, t2)
              twice == UpsertRow(UpsertRow(remoteRows, k[1], k[2], cols, t1), k[1], k[2], cols, t2)
              marked == MarkRowDeleted(remoteRows, k[1], k[2], t1)
          IN /\ SavedUnder(remoteRows, once, k, cols, t2)
             /\ twice = once
             /\ MarkedUnder(remoteRows, marked, k, t1)
             /\ \A p \in {x[1] : x \in StoreKeys} :
                   /\ RemoteView(marked, p) =
                         IF p = k[1] THEN mark_remote_file_deleted(RemoteView(remoteRows, p), k[2])
                         ELSE RemoteView(remoteRows, p)
                   /\ h = None =>
                         RemoteView(once, p) =
                           IF p = k[1] THEN save_remote_file_state(RemoteView(remoteRows, p), k[2], size, e, Some(t1))
                           ELSE RemoteView(remoteRows, p)

\* C39: both tables are full; in each the first row created has been saved
\* again with another size and the second is marked deleted
C39_SavedMarkedSavedAgain ==
    /\ Cardinality(localRows) = Cardinality(StoreKeys)
    /\ \E r \in localRows : r.id = 1 /\ r.size = 2 /\ ~r.is_deleted
    /\ \E r \in localRows : r.id = 2 /\ r.is_deleted
    /\ \E r \in remoteRows : r.id = 1 /\ r.size = 2 /\ ~r.is_deleted
    /\ \E r \in remoteRows : r.id = 2 /\ r.is_deleted

====
